---- MODULE Spec2Model ----
(***************************************************************************)
(* Model of the database connection core: MySQLConnection                  *)
(* (src/src/database/mysql.py) and the connection registry                 *)
(* (src/src/tools/connection_tools.py).                                    *)
(*                                                                         *)
(* The specifications share the definitions of the connection methods:     *)
(*   Spec         registry calls (connect, disconnect, async_connect,       *)
(*                async_disconnect) issued by concurrent callers, split at  *)
(*                the points where another caller can run;                  *)
(*   SpecConn     the methods of one MySQLConnection object called          *)
(*                directly, one after the other;                            *)
(*   SpecQuery    execute_query and async_execute_query on one object;      *)
(*   SpecSchema   the introspection operations, one statement at a time;    *)
(*   SpecPool     concurrent async_execute_query calls on one pool;         *)
(*   SpecOverlap  blocking registry calls and execute_sql_query issued by   *)
(*                concurrent callers;                                       *)
(*   SpecTools    the registry's tools called one after the other on two    *)
(*                names;                                                    *)
(*   SpecLife     one object connected, disconnected and queried in both    *)
(*                execution models;                                         *)
(*   SpecCatalog  the table description _get_table_details builds from      *)
(*                catalog rows;                                             *)
(*   SpecClock    the clock readings of one execute_query or                *)
(*                async_execute_query call.                                 *)
(***************************************************************************)
EXTENDS Integers, Sequences, FiniteSets, TLC

VARIABLES
    conns,                      \* MySQLConnection objects: id -> fields
    engine,                     \* the engine's view: sessions and pools open
    _active_connections,        \* connection_tools.py:18
    _async_active_connections,  \* connection_tools.py:19
    pc,                         \* position of each caller in its registry call
                                \* (SpecPool: the number of calls at each position)
    call,                       \* the registry call each caller is in / last made
                                \* (SpecCatalog: the rows answered; SpecClock:
                                \* the call and its readings)
    overlap,                    \* history: callers whose call overlapped this one
    tornDown,                   \* history: objects a teardown method was called on
    last,                       \* SpecConn history: the last direct method call
    prev                        \* SpecConn history: the call before it

vars == <<conns, engine, _active_connections, _async_active_connections,
          pc, call, overlap, tornDown, last, prev>>

-----------------------------------------------------------------------------
(* Bounds *)

MaxSess == 2      \* blocking sessions the engine hands out in one run
MaxPools == 2     \* pools the engine hands out in one run
MaxInst == 2      \* MySQLConnection objects constructed in one run
MaxOps == 4       \* direct method calls in one SpecConn run

None == 0

\* The registry is exercised by two concurrent callers on one connection name.
Names == {"A"}

Callers == {"t1", "t2"}

-----------------------------------------------------------------------------
(* Configuration records.  keys: which of host/user/database are present.   *)
(* password: absent, a literal, or env:VAR with VAR set / unset.            *)

required_keys == <<"host", "user", "database">>

AllKeys == {required_keys[i] : i \in 1..Len(required_keys)}

EmptyConfig == [type |-> "absent", keys |-> {}, password |-> "absent"]

ValidConfig == [type |-> "mysql", keys |-> AllKeys, password |-> "literal"]

ConfigInputs ==
    { ValidConfig,
      [type |-> "absent", keys |-> AllKeys, password |-> "env_set"],
      [type |-> "mysql", keys |-> AllKeys, password |-> "env_unset"],
      [type |-> "mysql", keys |-> AllKeys \ {"host"}, password |-> "literal"],
      [type |-> "mysql", keys |-> AllKeys \ {"user"}, password |-> "literal"],
      [type |-> "mysql", keys |-> AllKeys \ {"database"}, password |-> "env_unset"],
      [type |-> "postgresql", keys |-> AllKeys, password |-> "literal"] }

\* mysql.py:89-92 / 186-189: the first required key absent from config, if any
MissingKey(config) == \E i \in 1..Len(required_keys) : required_keys[i] \notin config.keys

\* mysql.py:876-895: the error _get_password raises, "none" when it returns
_get_password(config) ==
    IF config.password = "env_unset" THEN "DatabaseConfigError" ELSE "none"

-----------------------------------------------------------------------------
(* MySQLConnection objects *)

\* A version string as the numbers of its dotted parts: "8.0.36" is
\* Version(<<8, 0, 36>>), "5.6" is Version(<<5, 6>>).
Version(parts) == [text |-> "X.Y.Z", parts |-> parts]

\* mysql.py:61: self._mysql_version = None
NoVersion == [text |-> "None", parts |-> << >>]

\* mysql.py:132: "Unknown"
UnknownVersion == [text |-> "Unknown", parts |-> << >>]

\* base.py:108-119, mysql.py:50-65
NewConnection(connection_name) ==
    [ connection_name |-> connection_name,
      config          |-> EmptyConfig,
      _connection     |-> None,
      _cursor         |-> None,
      _async_pool     |-> None,
      _mysql_version  |-> NoVersion,
      _is_connected   |-> FALSE ]

\* The version the server reports to SELECT VERSION().
ServerVersion == Version(<<8, 0, 36>>)

\* The engine: sessions and pools handed out and still open, the ones that are
\* in auto-commit mode, the number of pooled sessions acquired and not yet
\* released, and the server's version.
InitEngine ==
    [ sessOpen |-> {}, sessCount |-> 0, sessAuto |-> {},
      poolOpen |-> {}, poolCount |-> 0, poolAuto |-> {},
      poolInUse |-> 0,
      version  |-> ServerVersion ]

\* mysql.py:106 / 201: config.get('autocommit', True)
Autocommit(config) ==
    IF "autocommit" \in DOMAIN config THEN config.autocommit ELSE TRUE

\* What a method call reports: the error it raised ("none": it returned), the
\* success it returned, whether it attempted a network connection, and the
\* number of close() calls it issued on a session or pool.
Outcome(raised, success, net, closes) ==
    [raised |-> raised, success |-> success, net |-> net, closes |-> closes]

\* mysql.py:138-147: both handlers of connect raise DatabaseConnectionError
connect_except(kind) ==
    CASE kind = "pymysql.Error" -> "DatabaseConnectionError"
      [] OTHER                  -> "DatabaseConnectionError"

ConnectEnv == {"accept", "reject", "ping_fail", "version_fail"}

\* mysql.py:71-147.  env: what the engine does with this connection attempt.
connect(c, config, e, env) ==
    LET sid == e.sessCount + 1
        raise(kind, c2, e2, net) ==
            [ c |-> [c2 EXCEPT !._is_connected = FALSE], e |-> e2,
              r |-> Outcome(connect_except(kind), FALSE, net, 0) ]
        stored == [c EXCEPT !.config = config]
        opened == [stored EXCEPT !._connection = sid]
        auto   == IF Autocommit(config) THEN {sid} ELSE {}
    IN  IF MissingKey(config)
            THEN raise("DatabaseConfigError", c, e, FALSE)
        ELSE IF _get_password(config) # "none"
            THEN raise(_get_password(config), c, e, FALSE)
        ELSE IF env = "reject"
            THEN raise("pymysql.Error", stored, e, TRUE)
        ELSE IF env = "ping_fail"     \* session established, then lost
            THEN raise("pymysql.Error", opened,
                       [e EXCEPT !.sessCount = sid, !.sessAuto = @ \cup auto], TRUE)
        ELSE IF env = "version_fail"  \* session established and still open
            THEN raise("pymysql.Error", opened,
                       [e EXCEPT !.sessCount = sid, !.sessOpen = @ \cup {sid},
                                 !.sessAuto = @ \cup auto], TRUE)
        ELSE [ c |-> [opened EXCEPT !._mysql_version = e.version,
                                    !._is_connected = TRUE],
               e |-> [e EXCEPT !.sessCount = sid, !.sessOpen = @ \cup {sid},
                               !.sessAuto = @ \cup auto],
               r |-> Outcome("none", TRUE, TRUE, 0) ]

\* A handler that swallows driver errors only.
disconnect_except_driver_only(kind) ==
    IF kind = "pymysql.Error" THEN "none" ELSE kind

\* mysql.py:163-164: except Exception swallows whatever the closes raised
disconnect_except(kind) == "none"

\* What a close() does: "ok", or it raises an error of some kind and leaves the
\* session/pool closed or still open.
CloseEnv == {"ok", "pymysql.Error/closed", "pymysql.Error/open",
             "OSError/closed", "OSError/open"}

CloseRaises(fail) ==
    CASE fail \in {"pymysql.Error/closed", "pymysql.Error/open"} -> "pymysql.Error"
      [] fail \in {"OSError/closed", "OSError/open"}             -> "OSError"
      [] OTHER                                                   -> "none"

CloseLeavesOpen(fail) == fail \in {"pymysql.Error/open", "OSError/open"}

\* mysql.py:149-166.  _cursor is never assigned by any method, so the cursor
\* branch (152-154) closes nothing.
disconnect(c, e, fail) ==
    LET sid == c._connection
        e2  == IF CloseLeavesOpen(fail) THEN e
               ELSE [e EXCEPT !.sessOpen = @ \ {sid}]
    IN  IF sid = None
            THEN [ c |-> [c EXCEPT !._is_connected = FALSE], e |-> e,
                   r |-> Outcome("none", TRUE, FALSE, 0) ]
        ELSE IF CloseRaises(fail) = "none"
            THEN [ c |-> [c EXCEPT !._connection = None, !._is_connected = FALSE],
                   e |-> e2,
                   r |-> Outcome("none", TRUE, FALSE, 1) ]
        ELSE [ c |-> [c EXCEPT !._is_connected = FALSE], e |-> e2,
               r |-> Outcome(disconnect_except(CloseRaises(fail)), TRUE, FALSE, 1) ]

\* mysql.py:211-215: the single handler of async_connect
async_connect_except(kind) == "DatabaseConnectionError"

PoolEnv == {"accept", "reject"}

\* mysql.py:172-215
async_connect(c, config, e, env) ==
    LET pid == e.poolCount + 1
        raise(kind, net) ==
            [ c |-> [c EXCEPT !._is_connected = FALSE], e |-> e,
              r |-> Outcome(async_connect_except(kind), FALSE, net, 0) ]
    IN  IF MissingKey(config)
            THEN raise("DatabaseConfigError", FALSE)
        ELSE IF _get_password(config) # "none"
            THEN raise(_get_password(config), FALSE)
        ELSE IF env = "reject"
            THEN raise("OSError", TRUE)
        ELSE [ c |-> [c EXCEPT !._async_pool = pid, !.config = config,
                               !._is_connected = TRUE],
               e |-> [e EXCEPT !.poolCount = pid, !.poolOpen = @ \cup {pid},
                               !.poolAuto = @ \cup (IF Autocommit(config)
                                                       THEN {pid} ELSE {})],
               r |-> Outcome("none", TRUE, TRUE, 0) ]

\* mysql.py:228-229
async_disconnect_except(kind) == "none"

\* mysql.py:217-231.  pool.close() is issued; wait_closed() may raise.
async_disconnect(c, e, fail) ==
    LET pid == c._async_pool
        e2  == IF CloseLeavesOpen(fail) THEN e
               ELSE [e EXCEPT !.poolOpen = @ \ {pid}]
    IN  IF pid = None
            THEN [ c |-> [c EXCEPT !._is_connected = FALSE], e |-> e,
                   r |-> Outcome("none", TRUE, FALSE, 0) ]
        ELSE IF CloseRaises(fail) = "none"
            THEN [ c |-> [c EXCEPT !._async_pool = None, !._is_connected = FALSE],
                   e |-> e2,
                   r |-> Outcome("none", TRUE, FALSE, 1) ]
        ELSE [ c |-> [c EXCEPT !._is_connected = FALSE], e |-> e2,
               r |-> Outcome(async_disconnect_except(CloseRaises(fail)), TRUE, FALSE, 1) ]

-----------------------------------------------------------------------------
(* Liveness probe, statement execution and connection test *)

\* What the engine does with one probe of a connection test.
QueryEnv == {"ok", "ping_fail", "query_fail"}

\* mysql.py:843-860: the is_connected property; it looks at the blocking
\* session only, and clears _is_connected when the ping fails.
is_connected(c, e, env) ==
    IF c._connection = None
        THEN [c |-> c, v |-> FALSE]
    ELSE IF c._connection \in e.sessOpen /\ env # "ping_fail"
        THEN [c |-> c, v |-> TRUE]
    ELSE [c |-> [c EXCEPT !._is_connected = FALSE], v |-> FALSE]

-----------------------------------------------------------------------------
(* Statement text.  A statement is the sequence of its characters.          *)

Upper == <<"A", "B", "C", "D", "E", "F", "G", "H", "I", "J", "K", "L", "M",
           "N", "O", "P", "Q", "R", "S", "T", "U", "V", "W", "X", "Y", "Z">>

Lower == <<"a", "b", "c", "d", "e", "f", "g", "h", "i", "j", "k", "l", "m",
           "n", "o", "p", "q", "r", "s", "t", "u", "v", "w", "x", "y", "z">>

Whitespace == {" ", "\t", "\n"}

\* The lower-case letter of each upper-case letter.
ToLower ==
    [ch \in {Upper[k] : k \in 1..Len(Upper)} |->
        Lower[CHOOSE k \in 1..Len(Upper) : Upper[k] = ch]]

\* str.lower()
lower(s) ==
    [i \in 1..Len(s) |-> IF s[i] \in DOMAIN ToLower THEN ToLower[s[i]] ELSE s[i]]

\* str.strip()
strip(s) ==
    LET idx == {i \in 1..Len(s) : s[i] \notin Whitespace}
        lo  == CHOOSE i \in idx : \A j \in idx : i <= j
        hi  == CHOOSE i \in idx : \A j \in idx : j <= i
    IN  IF idx = {} THEN << >> ELSE SubSeq(s, lo, hi)

\* str.startswith(prefix)
startswith(s, prefix) ==
    Len(s) >= Len(prefix) /\ SubSeq(s, 1, Len(prefix)) = prefix

\* mysql.py:257 / 401: query.strip().lower()
query_lower(query) == lower(strip(query))

kw_select   == <<"s", "e", "l", "e", "c", "t">>
kw_show     == <<"s", "h", "o", "w">>
kw_describe == <<"d", "e", "s", "c", "r", "i", "b", "e">>
kw_explain  == <<"e", "x", "p", "l", "a", "i", "n">>

\* mysql.py:302 / 413: the tuple given to startswith
read_keywords == <<kw_select, kw_show, kw_describe, kw_explain>>

\* The test without lower(): only lower-case statements are reads.
IsRead_case_sensitive(query) ==
    \E k \in 1..Len(read_keywords) : startswith(strip(query), read_keywords[k])

\* mysql.py:302 / 413: query_lower.startswith(('select', 'show', 'describe',
\* 'explain'))
IsRead(query) ==
    \E k \in 1..Len(read_keywords) : startswith(query_lower(query), read_keywords[k])

-----------------------------------------------------------------------------
(* Statement execution *)

\* What is handed to the engine's execute(): the statement text, the
\* caller-supplied values formatted into the text, and the caller-supplied
\* values passed beside it as parameters.
Stmt(text, interpolated, bound) ==
    [text |-> text, interpolated |-> interpolated, bound |-> bound]

\* base.py:31-54 (execution_time left out)
QueryResult(success, data, columns, row_count, error_message, sql_query) ==
    [ success |-> success, data |-> data, columns |-> columns,
      row_count |-> row_count, error_message |-> error_message,
      sql_query |-> sql_query ]

NoResult == [success |-> FALSE]

NoParams == << >>

\* What the world does with the statement of one call:
\*   "ok"          the engine executes it in time and reports n rows
\*                 (rows of the result set, or rows affected);
\*   "slow"        it runs longer than the timeout; msg is the text of the
\*                 error with which the engine interrupts a statement that ran
\*                 past max_execution_time (server error 3024, or a text that
\*                 names the variable);
\*   "rejected"    the engine reports an error (syntax, permission, constraint);
\*   "lost"        the session is lost while the statement runs;
\*   "no_session"  the server is out of reach: the pool cannot open a session
\*                 to hand out, the blocking session is lost;
\*   "unexpected"  a failure that is no driver error.
StmtEnv(status, n, msg) == [status |-> status, n |-> n, msg |-> msg]

ServerError3024 ==
    "Query execution was interrupted, maximum statement execution time exceeded"

TimeoutMessages == {ServerError3024, "max_execution_time exceeded"}

\* mysql.py:366: "max_execution_time" in str(e).lower()
MentionsMaxExecutionTime(msg) == msg = "max_execution_time exceeded"

\* The rows of the result set the engine holds for a statement it executed.
ResultSet(n) == [i \in 1..n |-> [row |-> i]]

\* The driver's default Cursor.arraysize.
arraysize == 1

\* mysql.py:304 / 415: cursor.fetchmany(size) on a fresh result set, the
\* driver's rows[0 : size or arraysize], for size >= 0
fetchmany(rows, size) ==
    LET end == IF size = 0 THEN arraysize ELSE size
    IN  IF end >= Len(rows) THEN rows ELSE SubSeq(rows, 1, end)

\* mysql.py:273-286: the parsed version supports max_execution_time
SupportsMaxExecutionTime(_mysql_version) ==
    /\ _mysql_version # NoVersion
    /\ _mysql_version # UnknownVersion
    /\ Len(_mysql_version.parts) >= 3
    /\ LET major == _mysql_version.parts[1]
           minor == _mysql_version.parts[2]
           patch == _mysql_version.parts[3]
       IN  \/ major > 5
           \/ (major = 5 /\ minor > 7)
           \/ (major = 5 /\ minor = 7 /\ patch >= 4)

\* The timeout argument: the value the caller gave, or the default of the
\* signature (mysql.py:242 / 386).
CallerTimeout == [seconds |-> "timeout", caller |-> TRUE]

DefaultTimeout == [seconds |-> "30", caller |-> FALSE]

\* mysql.py:283: the directive, built as an f-string around timeout
TimeoutDirective(timeout) ==
    Stmt("SET SESSION max_execution_time = {timeout * 1000}",
         IF timeout.caller THEN {"timeout"} ELSE {}, {})

\* mysql.py:291-297 / 410: the caller's statement, with params beside it
CallerStmt(query, params) ==
    Stmt(query, {}, IF params # NoParams THEN {"params"} ELSE {})

\* mysql.py:357: self._connection.autocommit is the driver's method
\* Connection.autocommit(value), not the mode; a method object is true
connection_autocommit(c, e) == TRUE

\* The exception the blocking cursor.execute raises: [kind, msg], kind "none"
\* when it returns.  The engine interrupts a SELECT that runs past a
\* max_execution_time in force; without the directive the statement completes.
Thrown(c, e, query, env, directive) ==
    IF c._connection \notin e.sessOpen
        THEN [kind |-> "pymysql.Error", msg |-> "Already closed"]
    ELSE IF env.status = "slow" /\ directive
                /\ startswith(query_lower(query), kw_select)
        THEN [kind |-> "pymysql.OperationalError", msg |-> env.msg]
    ELSE IF env.status = "rejected"
        THEN [kind |-> "pymysql.Error", msg |-> env.msg]
    ELSE IF env.status \in {"lost", "no_session"}
        THEN [kind |-> "pymysql.OperationalError", msg |-> env.msg]
    ELSE IF env.status = "unexpected"
        THEN [kind |-> "Exception", msg |-> env.msg]
    ELSE [kind |-> "none", msg |-> ""]

\* What a call of execute_query / async_execute_query did: the error raised
\* ("none": it returned result) with its message prefix and the message it
\* carries, the local warning, the statements handed to the engine, and the
\* number of commits issued.
QueryOutcome(raised, prefix, msg, result, warning, sent, commits) ==
    [ raised |-> raised, prefix |-> prefix, msg |-> msg, result |-> result,
      warning |-> warning, sent |-> sent, commits |-> commits ]

\* mysql.py:365-372: the handlers of execute_query
execute_query_except(thrown) ==
    IF thrown.kind = "pymysql.OperationalError"
        THEN IF MentionsMaxExecutionTime(thrown.msg)
                 THEN [raised |-> "DatabaseTimeoutError",
                       prefix |-> "Query exceeded {timeout} second timeout",
                       msg |-> ""]
                 ELSE [raised |-> "DatabaseQueryError",
                       prefix |-> "MySQL operational error: ", msg |-> thrown.msg]
    ELSE IF thrown.kind = "pymysql.Error"
        THEN [raised |-> "DatabaseQueryError", prefix |-> "MySQL error: ",
              msg |-> thrown.msg]
    ELSE [raised |-> "DatabaseQueryError", prefix |-> "Unexpected error: ",
          msg |-> thrown.msg]

\* A write reported with the engine's count as row_count and no row.
WriteResult_count_only(query, affected_rows) ==
    QueryResult(TRUE, << >>, <<"affected_rows">>, affected_rows, << >>, query)

\* mysql.py:345-354 / 438-448
WriteResult(query, affected_rows) ==
    QueryResult(TRUE, <<[affected_rows |-> affected_rows]>>,
                <<"affected_rows">>, 1, << >>, query)

\* mysql.py:304-341 / 415-435: the rows fetched, and the result built of them
ReadResult(query, rows) ==
    QueryResult(TRUE, rows, <<"description">>, Len(rows), << >>, query)

\* warning = None
NoWarning == "None"

\* mysql.py:310-314 / 421-424: the local variable warning
Warning(rows, max_rows) ==
    IF Len(rows) = max_rows THEN "Results may be truncated" ELSE NoWarning

\* mysql.py:237-375
execute_query(c, e, query, params, max_rows, timeout, env) ==
    LET directive == SupportsMaxExecutionTime(c._mysql_version)
        sent   == (IF directive THEN <<TimeoutDirective(timeout)>> ELSE << >>)
                      \o <<CallerStmt(query, params)>>
        thrown == Thrown(c, e, query, env, directive)
        x      == execute_query_except(thrown)
        rows   == fetchmany(ResultSet(env.n), max_rows)
        commits == IF ~connection_autocommit(c, e) THEN 1 ELSE 0
    IN  IF c._connection = None
            THEN QueryOutcome("DatabaseConnectionError", "Not connected to database",
                              "", NoResult, NoWarning, << >>, 0)
        ELSE IF c._connection \notin e.sessOpen
            THEN QueryOutcome(x.raised, x.prefix, x.msg, NoResult, NoWarning, << >>, 0)
        ELSE IF thrown.kind # "none"
            THEN QueryOutcome(x.raised, x.prefix, x.msg, NoResult, NoWarning, sent, 0)
        ELSE IF IsRead(query)
            THEN QueryOutcome("none", "", "", ReadResult(query, rows),
                              Warning(rows, max_rows), sent, commits)
        ELSE QueryOutcome("none", "", "", WriteResult(query, env.n),
                          NoWarning, sent, commits)

\* The timeout handled like any other failure of the statement.
async_execute_query_except_generic(kind) == "return"

\* Failures of the statement raised instead of returned.
async_execute_query_except_raise(kind) ==
    IF kind = "asyncio.TimeoutError" THEN "DatabaseTimeoutError"
    ELSE "DatabaseQueryError"

\* mysql.py:452-472: the handlers of async_execute_query; "return": a
\* QueryResult with success=False is returned
async_execute_query_except(kind) ==
    IF kind = "asyncio.TimeoutError" THEN "DatabaseTimeoutError" ELSE "return"

\* The exception raised under asyncio.wait_for(cursor.execute(...), timeout).
AsyncThrown(env) ==
    IF env.status = "slow"
        THEN [kind |-> "asyncio.TimeoutError", msg |-> ""]
    ELSE IF env.status = "rejected"
        THEN [kind |-> "pymysql.Error", msg |-> env.msg]
    ELSE IF env.status = "lost"
        THEN [kind |-> "pymysql.OperationalError", msg |-> env.msg]
    ELSE IF env.status = "unexpected"
        THEN [kind |-> "Exception", msg |-> env.msg]
    ELSE [kind |-> "none", msg |-> ""]

\* mysql.py:381-472.  acquire() (406) is outside the try: a closed pool
\* refuses it with RuntimeError, and the driver's error escapes it when no
\* session can be opened.  No commit is issued anywhere in the method.
async_execute_query(c, e, query, params, max_rows, timeout, env) ==
    LET sent   == <<CallerStmt(query, params)>>
        thrown == AsyncThrown(env)
        rows   == fetchmany(ResultSet(env.n), max_rows)
    IN  IF c._async_pool = None
            THEN QueryOutcome("DatabaseConnectionError",
                              "Not connected to database (async pool not initialized)",
                              "", NoResult, NoWarning, << >>, 0)
        ELSE IF c._async_pool \notin e.poolOpen
            THEN QueryOutcome("RuntimeError", "", "", NoResult, NoWarning, << >>, 0)
        ELSE IF env.status = "no_session"
            THEN QueryOutcome("pymysql.OperationalError", "", env.msg, NoResult,
                              NoWarning, << >>, 0)
        ELSE IF thrown.kind # "none"
            THEN IF async_execute_query_except(thrown.kind) = "return"
                     THEN QueryOutcome("none", "", "",
                              QueryResult(FALSE, << >>, << >>, 0,
                                          <<"Query execution failed: ", thrown.msg>>,
                                          query),
                              NoWarning, sent, 0)
                     ELSE QueryOutcome(async_execute_query_except(thrown.kind),
                              "Query timeout after {timeout} seconds", "",
                              NoResult, NoWarning, sent, 0)
        ELSE IF IsRead(query)
            THEN QueryOutcome("none", "", "", ReadResult(query, rows),
                              Warning(rows, max_rows), sent, 0)
        ELSE QueryOutcome("none", "", "", WriteResult(query, env.n), NoWarning,
                          sent, 0)

-----------------------------------------------------------------------------
(* Schema introspection and database information *)

\* The texts of the introspection statements, by their first characters.
\* mysql.py:501-517, 546-551, 653-668, 916-995: a triple-quoted SELECT
SelectText == <<"\n", " ", "S", "E", "L", "E", "C", "T">>

\* mysql.py:565, 645, 808: "SELECT ..."
SelectLine == <<"S", "E", "L", "E", "C", "T">>

\* mysql.py:572: "SHOW CREATE TABLE ..."
ShowCreateText == <<"S", "H", "O", "W">>

\* mysql.py:241 / 385: max_rows: int = 1000, as a row cap no result set of
\* the model reaches
DefaultMaxRows == 1000

\* One execute_query / async_execute_query call of an operation: what it asks
\* for, the model it runs in, the statement, the caller-supplied values put
\* into its text and the ones bound to it, and whether the operation ends when
\* it yields no row.
Step(role, model, query, interpolated, bound, max_rows, stops) ==
    [ role |-> role, model |-> model, query |-> query,
      interpolated |-> interpolated, bound |-> bound, max_rows |-> max_rows,
      stops |-> stops ]

\* mysql.py:897-1017: columns, foreign keys, indexes
_get_table_details(bound) ==
    << Step("columns", "blocking", SelectText, {}, bound, DefaultMaxRows, FALSE),
       Step("foreign_keys", "blocking", SelectText, {}, bound, DefaultMaxRows, FALSE),
       Step("indexes", "blocking", SelectText, {}, bound, DefaultMaxRows, FALSE) >>

\* table_name, when the caller gave one
Given(table_name) == IF table_name # "None" THEN {"table_name"} ELSE {}

\* mysql.py:499-526: the table query, then the details of each table found (of
\* the one table, in the model); the names come from the engine
get_schema_steps(table_name) ==
    <<Step("tables", "blocking", SelectText, {}, Given(table_name),
           DefaultMaxRows, TRUE)>>
        \o _get_table_details({})

\* The details asked for whether or not the existence check found the table.
get_table_schema_steps_unchecked(table_name) ==
    <<Step("exists", "blocking", SelectText, {}, {"table_name"},
           DefaultMaxRows, FALSE)>>
        \o _get_table_details({"table_name"})
        \o << Step("count", "blocking", SelectLine, {"table_name"}, {}, 1, FALSE),
              Step("create", "blocking", ShowCreateText, {"table_name"}, {}, 1,
                   FALSE) >>

\* mysql.py:546-575: the existence check, the details, COUNT(*) and SHOW
\* CREATE TABLE, the last two with table_name in an f-string
get_table_schema_steps(table_name) ==
    <<Step("exists", "blocking", SelectText, {}, {"table_name"},
           DefaultMaxRows, TRUE)>>
        \o _get_table_details({"table_name"})
        \o << Step("count", "blocking", SelectLine, {"table_name"}, {}, 1, FALSE),
              Step("create", "blocking", ShowCreateText, {"table_name"}, {}, 1,
                   FALSE) >>

\* mysql.py:644-671: character set, size, table count
get_database_info_steps ==
    << Step("charset", "blocking", SelectLine, {}, {}, 1, FALSE),
       Step("size", "blocking", SelectText, {}, {}, DefaultMaxRows, FALSE),
       Step("table_count", "blocking", SelectText, {}, {}, DefaultMaxRows, FALSE) >>

\* mysql.py:700-725: the table query on the pool, the details on the blocking
\* session
async_get_schema_steps(table_name) ==
    <<Step("tables", "async", SelectText, {}, Given(table_name),
           DefaultMaxRows, TRUE)>>
        \o _get_table_details({})

\* mysql.py:744-758
async_get_table_schema_steps(table_name) ==
    <<Step("exists", "async", SelectText, {}, {"table_name"},
           DefaultMaxRows, TRUE)>>
        \o _get_table_details({"table_name"})

\* mysql.py:808-831
async_get_database_info_steps ==
    << Step("charset", "async", SelectLine, {}, {}, DefaultMaxRows, FALSE),
       Step("size", "async", SelectText, {}, {}, DefaultMaxRows, FALSE),
       Step("table_count", "async", SelectText, {}, {}, DefaultMaxRows, FALSE) >>

\* The call a step makes.
StepCall(c, e, st, env) ==
    LET params == IF st.bound # {} THEN <<"bound">> ELSE NoParams
    IN  IF st.model = "blocking"
            THEN execute_query(c, e, st.query, params, st.max_rows,
                               DefaultTimeout, env)
            ELSE async_execute_query(c, e, st.query, params, st.max_rows,
                                     DefaultTimeout, env)

\* The statements the call q of step st handed to the engine: the session
\* directive, if any, and the step's statement with the values the
\* operation's f-string put into its text.
StepSent(q, st) ==
    IF q.sent = << >> THEN << >>
    ELSE SubSeq(q.sent, 1, Len(q.sent) - 1)
             \o <<Stmt(st.query, st.interpolated, st.bound)>>

SchemaOps ==
    { "get_schema", "get_table_schema", "get_database_info",
      "async_get_schema", "async_get_table_schema", "async_get_database_info" }

\* The statements of each operation, in the order it runs them.
Steps(op, table_name) ==
    CASE op = "get_schema"              -> get_schema_steps(table_name)
      [] op = "get_table_schema"        -> get_table_schema_steps(table_name)
      [] op = "get_database_info"       -> get_database_info_steps
      [] op = "async_get_schema"        -> async_get_schema_steps(table_name)
      [] op = "async_get_table_schema"  -> async_get_table_schema_steps(table_name)
      [] op = "async_get_database_info" -> async_get_database_info_steps

\* mysql.py:489, 625: the operations that test is_connected first
ChecksConnected(op) == op \in {"get_schema", "get_database_info"}

\* mysql.py:530-532, 588-590, 675-677, 729-731, 769-771, 835-837: except
\* Exception ... raise DatabaseQueryError(...) from e
schema_except(kind) == "DatabaseQueryError"

\* mysql.py:534, 733: the operations that return Optional[TableSchema]
TableSchemaOps == {"get_table_schema", "async_get_table_schema"}

\* What an operation returns: None where it finds no table (558, 756), a
\* TableSchema (578, 760), or the dictionary it filled (526, 673, 725, 833).
Returned(op, found) ==
    IF op \in TableSchemaOps
        THEN IF found THEN "TableSchema" ELSE "None"
        ELSE "dict"

\* The trace of an operation: the statements it has run (what each asks for
\* and the model it ran in), the engine's answer to each, and the statements
\* handed to the engine.
Trace(issued, answers, sent) ==
    [issued |-> issued, answers |-> answers, sent |-> sent]

NoTrace == Trace(<< >>, << >>, << >>)

\* An operation under way or ended: the next step k, its trace so far, the
\* error raised at its boundary ("none": it returned, once done) and the error
\* that caused it, whether the statement that raised had run past the
\* timeout, and the value returned.
SchemaCall(op, table_name, k, trace, raised, cause, timedOut, done, value) ==
    [ op |-> op, table_name |-> table_name, k |-> k, issued |-> trace.issued,
      answers |-> trace.answers, sent |-> trace.sent,
      raised |-> raised, cause |-> cause, timedOut |-> timedOut, done |-> done,
      value |-> value ]

\* mysql.py:607 / 784: "SELECT 1 as test"
SelectOneAsTest ==
    <<"S", "E", "L", "E", "C", "T", " ", "1", " ", "a", "s", " ", "t", "e", "s", "t">>

\* The engine's answer to the statement of a connection test.
TestEnv(env) ==
    IF env = "ok" THEN StmtEnv("ok", 1, "")
    ELSE IF env = "ping_fail" THEN StmtEnv("lost", 0, "Lost connection")
    ELSE StmtEnv("rejected", 0, "error")

\* mysql.py:609 / 786: result.success and result.data and
\* result.data[0].get('test') == 1
TestPassed(q) ==
    q.raised = "none" /\ q.result.success /\ q.result.data # << >>

\* mysql.py:596-615
test_connection(c, e, env) ==
    LET ic == is_connected(c, e, env)
        q  == execute_query(ic.c, e, SelectOneAsTest, NoParams, 1, DefaultTimeout,
                            TestEnv(env))
    IN  IF ~ic.v
            THEN [c |-> ic.c, e |-> e, r |-> Outcome("none", FALSE, FALSE, 0)]
        ELSE [c |-> ic.c, e |-> e, r |-> Outcome("none", TestPassed(q), FALSE, 0)]

\* mysql.py:773-792
async_test_connection(c, e, env) ==
    LET ic == is_connected(c, e, env)
        q  == async_execute_query(ic.c, e, SelectOneAsTest, NoParams, 1,
                                  DefaultTimeout, TestEnv(env))
    IN  IF ~ic.v
            THEN [c |-> ic.c, e |-> e, r |-> Outcome("none", FALSE, FALSE, 0)]
        ELSE [c |-> ic.c, e |-> e, r |-> Outcome("none", TestPassed(q), FALSE, 0)]

\* mysql.py:1027-1040: construct, connect, and return the object only when
\* connect returned
create_mysql_connection(connection_name, config, e, env) ==
    connect(NewConnection(connection_name), config, e, env)

-----------------------------------------------------------------------------
(* SpecConn: one MySQLConnection object, its methods called one at a time *)

Obj == 1

OpRec(seq, op, config, env, r) ==
    [seq |-> seq, op |-> op, config |-> config, env |-> env, r |-> r]

NoOp == OpRec(0, "none", EmptyConfig, "none", Outcome("none", FALSE, FALSE, 0))

RegistryIdle ==
    /\ _active_connections = << >>
    /\ _async_active_connections = << >>
    /\ pc = [p \in Callers |-> "idle"]
    /\ call = [p \in Callers |->
                 [op |-> "none", name |-> "A", config |-> EmptyConfig,
                  db |-> None, success |-> FALSE, error |-> "none"]]
    /\ overlap = [p \in Callers |-> {}]
    /\ tornDown = {}

InitConn ==
    /\ conns = (Obj :> NewConnection("A"))
    /\ engine = InitEngine
    /\ last = NoOp
    /\ prev = NoOp
    /\ RegistryIdle

\* The object's state and the engine's after a method call, and its record.
Called(op, config, env, x) ==
    /\ conns' = [conns EXCEPT ![Obj] = x.c]
    /\ engine' = x.e
    /\ prev' = last
    /\ last' = OpRec(last.seq + 1, op, config, env, x.r)
    /\ UNCHANGED <<_active_connections, _async_active_connections,
                   pc, call, overlap, tornDown>>

Conn_connect ==
    \E config \in ConfigInputs, env \in ConnectEnv :
        /\ last.seq < MaxOps
        /\ engine.sessCount < MaxSess
        /\ Called("connect", config, env, connect(conns[Obj], config, engine, env))

Conn_disconnect ==
    \E fail \in CloseEnv :
        /\ last.seq < MaxOps
        /\ Called("disconnect", EmptyConfig, fail, disconnect(conns[Obj], engine, fail))

Conn_async_connect ==
    \E config \in ConfigInputs, env \in PoolEnv :
        /\ last.seq < MaxOps
        /\ engine.poolCount < MaxPools
        /\ Called("async_connect", config, env,
                  async_connect(conns[Obj], config, engine, env))

Conn_async_disconnect ==
    \E fail \in CloseEnv :
        /\ last.seq < MaxOps
        /\ Called("async_disconnect", EmptyConfig, fail,
                  async_disconnect(conns[Obj], engine, fail))

Conn_test_connection ==
    \E env \in QueryEnv :
        /\ last.seq < MaxOps
        /\ Called("test_connection", EmptyConfig, env,
                  test_connection(conns[Obj], engine, env))

Conn_async_test_connection ==
    \E env \in QueryEnv :
        /\ last.seq < MaxOps
        /\ Called("async_test_connection", EmptyConfig, env,
                  async_test_connection(conns[Obj], engine, env))

NextConn ==
    \/ Conn_connect
    \/ Conn_disconnect
    \/ Conn_async_connect
    \/ Conn_async_disconnect
    \/ Conn_test_connection
    \/ Conn_async_test_connection

SpecConn == InitConn /\ [][NextConn]_vars

-----------------------------------------------------------------------------
(* SpecQuery: one MySQLConnection object, connected at most once in each     *)
(* execution model, and the statements run on it.                            *)

\* The versions a server may report: with max_execution_time (5.7.4 and
\* later), without it, with fewer than three parts, and none ("Unknown").
Versions ==
    { Version(<<8, 0, 36>>), Version(<<5, 7, 4>>), Version(<<5, 7, 3>>),
      Version(<<5, 6>>), UnknownVersion }

\* config with the optional key autocommit
WithAutocommit(config, autocommit) ==
    [ type |-> config.type, keys |-> config.keys, password |-> config.password,
      autocommit |-> autocommit ]

QueryConfigs == {ValidConfig, WithAutocommit(ValidConfig, FALSE)}

St_select       == <<" ", "S", "E", "L", "E", "C", "T", " ", "1">>
St_show         == <<"s", "h", "o", "w", " ", "t">>
St_describe     == <<"\n", "D", "e", "s", "c", "r", "i", "b", "e", " ", "t">>
St_explain      == <<"e", "x", "p", "l", "a", "i", "n", " ", "s">>
St_select_paren == <<"s", "e", "l", "e", "c", "t", "(", "1", ")">>
St_selectx      == <<"s", "e", "l", "e", "c", "t", "x", " ", "1">>
St_insert       == <<"I", "N", "S", "E", "R", "T", " ", "t">>
St_with         == <<"w", "i", "t", "h", " ", "s", "e", "l", "e", "c", "t">>
St_desc         == <<"d", "e", "s", "c", " ", "t">>

\* The statements given to execute_query / async_execute_query.
Statements ==
    { St_select, St_show, St_describe, St_explain, St_select_paren,
      St_selectx, St_insert, St_with, St_desc }

\* The statements the server's parser accepts.
ValidSQL == Statements \ {St_selectx}

SomeParams == <<"value">>

MaxResultRows == 3    \* rows the engine holds for, or reports of, one statement
MaxRowsArg == 2       \* largest max_rows given

MaxRowsInputs == 0..MaxRowsArg

OkEnvs == {StmtEnv("ok", n, "") : n \in 0..MaxResultRows}

FailEnvs ==
    {StmtEnv("slow", 1, msg) : msg \in TimeoutMessages}
        \cup { StmtEnv("rejected", 0, "You have an error in your SQL syntax"),
               StmtEnv("lost", 0, "Lost connection to MySQL server during query"),
               StmtEnv("unexpected", 0, "not all arguments converted") }

QueryCall(query, params, max_rows, env) ==
    [query |-> query, params |-> params, max_rows |-> max_rows, env |-> env]

\* The calls made: one read and one write with every row cap and behaviour
\* of the engine, and once with parameters; every other statement once
\* accepted and once rejected.
QueryCalls ==
    { QueryCall(query, NoParams, max_rows, env) :
        query \in {St_select, St_insert},
        max_rows \in MaxRowsInputs, env \in OkEnvs \cup FailEnvs }
    \cup { QueryCall(query, SomeParams, 1, StmtEnv("ok", 1, "")) :
             query \in {St_select, St_insert} }
    \cup { QueryCall(query, NoParams, 1, StmtEnv("ok", 1, "")) : query \in ValidSQL }
    \cup { QueryCall(query, NoParams, 1,
                     StmtEnv("rejected", 0, "You have an error in your SQL syntax")) :
             query \in Statements }

QueryRec(op, in, r) ==
    [ op |-> op, query |-> in.query, params |-> in.params,
      max_rows |-> in.max_rows, env |-> in.env, r |-> r ]

InitQuery ==
    /\ conns = (Obj :> NewConnection("A"))
    /\ \E v \in Versions : engine = [InitEngine EXCEPT !.version = v]
    /\ last = NoOp
    /\ prev = NoOp
    /\ RegistryIdle

\* An introspection operation is under way.
Busy == last.op \in SchemaOps /\ ~last.done

Q_connect ==
    \E config \in QueryConfigs :
        LET x == connect(conns[Obj], config, engine, "accept")
        IN  /\ ~Busy
            /\ conns[Obj]._connection = None
            /\ engine.sessOpen = {}
            /\ conns' = [conns EXCEPT ![Obj] = x.c]
            /\ engine' = x.e
            /\ last' = OpRec(0, "connect", config, "accept", x.r)
            /\ UNCHANGED <<_active_connections, _async_active_connections,
                           pc, call, overlap, tornDown, prev>>

Q_async_connect ==
    \E config \in QueryConfigs :
        LET x == async_connect(conns[Obj], config, engine, "accept")
        IN  /\ ~Busy
            /\ conns[Obj]._async_pool = None
            /\ engine.poolOpen = {}
            /\ conns' = [conns EXCEPT ![Obj] = x.c]
            /\ engine' = x.e
            /\ last' = OpRec(0, "async_connect", config, "accept", x.r)
            /\ UNCHANGED <<_active_connections, _async_active_connections,
                           pc, call, overlap, tornDown, prev>>

Q_execute_query ==
    \E in \in QueryCalls :
        /\ last' = QueryRec("execute_query", in,
                            execute_query(conns[Obj], engine, in.query, in.params,
                                          in.max_rows, CallerTimeout, in.env))
        /\ UNCHANGED <<conns, engine, _active_connections,
                       _async_active_connections, pc, call, overlap, tornDown, prev>>

Q_async_execute_query ==
    \E in \in QueryCalls :
        /\ last' = QueryRec("async_execute_query", in,
                            async_execute_query(conns[Obj], engine, in.query,
                                                in.params, in.max_rows,
                                                CallerTimeout, in.env))
        /\ UNCHANGED <<conns, engine, _active_connections,
                       _async_active_connections, pc, call, overlap, tornDown, prev>>

NextQuery ==
    \/ Q_connect
    \/ Q_async_connect
    \/ Q_execute_query
    \/ Q_async_execute_query

SpecQuery == InitQuery /\ [][NextQuery]_vars

\* What the engine does with the statement of one step: it yields no row or
\* one, runs past the timeout, or is rejected.
StepEnvs ==
    {StmtEnv("ok", n, "") : n \in {0, 1}}
        \cup {StmtEnv("slow", 1, msg) : msg \in TimeoutMessages}
        \cup {StmtEnv("rejected", 0, "Table doesn't exist")}

TableNames == {"None", "orders"}

\* mysql.py:478-490, 534-545, 617-626, 683-699, 733-743, 794-807: an operation
\* is entered; the ones that test is_connected end here when it is false
Begin(op, table_name) ==
    LET ic == is_connected(conns[Obj], engine, "ok")
    IN  /\ IF ChecksConnected(op)
               THEN /\ conns' = [conns EXCEPT ![Obj] = ic.c]
                    /\ last' = IF ic.v
                                   THEN SchemaCall(op, table_name, 1, NoTrace, "none",
                                                   "none", FALSE, FALSE, "pending")
                                   ELSE SchemaCall(op, table_name, 1, NoTrace,
                                                   schema_except("DatabaseConnectionError"),
                                                   "DatabaseConnectionError", FALSE, TRUE,
                                                   "raised")
               ELSE /\ conns' = conns
                    /\ last' = SchemaCall(op, table_name, 1, NoTrace, "none", "none",
                                          FALSE, FALSE, "pending")
        /\ UNCHANGED <<engine, _active_connections, _async_active_connections,
                       pc, call, overlap, tornDown, prev>>

Q_get_schema ==
    \E table_name \in TableNames :
        /\ ~Busy
        /\ Begin("get_schema", table_name)

Q_get_table_schema ==
    \E table_name \in TableNames \ {"None"} :
        /\ ~Busy
        /\ Begin("get_table_schema", table_name)

Q_get_database_info ==
    /\ ~Busy
    /\ Begin("get_database_info", "None")

Q_async_get_schema ==
    \E table_name \in TableNames :
        /\ ~Busy
        /\ Begin("async_get_schema", table_name)

Q_async_get_table_schema ==
    \E table_name \in TableNames \ {"None"} :
        /\ ~Busy
        /\ Begin("async_get_table_schema", table_name)

Q_async_get_database_info ==
    /\ ~Busy
    /\ Begin("async_get_database_info", "None")

\* The next statement of the operation under way is run: its exception ends
\* the operation in the handler, an empty result ends it where the code
\* returns or has no table to loop over, the last statement ends it.
Q_step ==
    \E env \in StepEnvs :
        LET steps == Steps(last.op, last.table_name)
            st    == steps[last.k]
            q     == StepCall(conns[Obj], engine, st, env)
            trace == Trace(Append(last.issued, [role |-> st.role, model |-> st.model]),
                           Append(last.answers, env),
                           last.sent \o StepSent(q, st))
        IN  /\ Busy
            /\ last' =
                 IF q.raised # "none"
                     THEN SchemaCall(last.op, last.table_name, last.k, trace,
                                     schema_except(q.raised), q.raised,
                                     env.status = "slow" /\ q.sent # << >>, TRUE,
                                     "raised")
                 ELSE IF st.stops /\ q.result.data = << >>
                     THEN SchemaCall(last.op, last.table_name, last.k, trace,
                                     "none", "none", FALSE, TRUE,
                                     Returned(last.op, FALSE))
                 ELSE IF last.k = Len(steps)
                     THEN SchemaCall(last.op, last.table_name, last.k, trace,
                                     "none", "none", FALSE, TRUE,
                                     Returned(last.op, TRUE))
                 ELSE SchemaCall(last.op, last.table_name, last.k + 1, trace,
                                 "none", "none", FALSE, FALSE, "pending")
            /\ UNCHANGED <<conns, engine, _active_connections,
                           _async_active_connections, pc, call, overlap,
                           tornDown, prev>>

\* SpecSchema: the same object, and the introspection operations run on it.
NextSchema ==
    \/ Q_connect
    \/ Q_async_connect
    \/ Q_get_schema
    \/ Q_get_table_schema
    \/ Q_get_database_info
    \/ Q_async_get_schema
    \/ Q_async_get_table_schema
    \/ Q_async_get_database_info
    \/ Q_step

SpecSchema == InitQuery /\ [][NextSchema]_vars

-----------------------------------------------------------------------------
(* SpecLife: one MySQLConnection object, connected and disconnected in each  *)
(* execution model, and statements run on it in between.  prev keeps the     *)
(* last connect or disconnect, last the last call.                           *)

LifeEnvs ==
    { StmtEnv("ok", 1, ""),
      StmtEnv("slow", 1, ServerError3024),
      StmtEnv("rejected", 0, "You have an error in your SQL syntax"),
      StmtEnv("no_session", 0, "Can't connect to MySQL server"),
      StmtEnv("unexpected", 0, "not all arguments converted") }

LifeCalls ==
    { QueryCall(query, NoParams, 1, env) :
        query \in {St_select, St_insert}, env \in LifeEnvs }

\* The object's state and the engine's after a lifecycle call, and its record.
LifeCalled(op, config, env, x) ==
    /\ conns' = [conns EXCEPT ![Obj] = x.c]
    /\ engine' = x.e
    /\ last' = OpRec(0, op, config, env, x.r)
    /\ UNCHANGED <<_active_connections, _async_active_connections,
                   pc, call, overlap, tornDown>>

L_connect ==
    \E env \in ConnectEnv :
        /\ engine.sessCount < MaxSess
        /\ LifeCalled("connect", ValidConfig, env,
                      connect(conns[Obj], ValidConfig, engine, env))
        /\ prev' = last'

L_disconnect ==
    \E fail \in CloseEnv :
        /\ LifeCalled("disconnect", EmptyConfig, fail,
                      disconnect(conns[Obj], engine, fail))
        /\ prev' = last'

L_async_connect ==
    \E env \in PoolEnv :
        /\ engine.poolCount < MaxPools
        /\ LifeCalled("async_connect", ValidConfig, env,
                      async_connect(conns[Obj], ValidConfig, engine, env))
        /\ prev' = prev

L_async_disconnect ==
    \E fail \in CloseEnv :
        /\ LifeCalled("async_disconnect", EmptyConfig, fail,
                      async_disconnect(conns[Obj], engine, fail))
        /\ prev' = prev

L_execute_query ==
    \E in \in LifeCalls :
        /\ last' = QueryRec("execute_query", in,
                            execute_query(conns[Obj], engine, in.query, in.params,
                                          in.max_rows, CallerTimeout, in.env))
        /\ UNCHANGED <<conns, engine, _active_connections,
                       _async_active_connections, pc, call, overlap, tornDown, prev>>

L_async_execute_query ==
    \E in \in LifeCalls :
        /\ last' = QueryRec("async_execute_query", in,
                            async_execute_query(conns[Obj], engine, in.query,
                                                in.params, in.max_rows,
                                                CallerTimeout, in.env))
        /\ UNCHANGED <<conns, engine, _active_connections,
                       _async_active_connections, pc, call, overlap, tornDown, prev>>

\* mysql.py:843-860 read by a caller: the property may clear _is_connected
L_is_connected ==
    \E env \in {"ok", "ping_fail"} :
        LET ic == is_connected(conns[Obj], engine, env)
        IN  /\ conns' = [conns EXCEPT ![Obj] = ic.c]
            /\ last' = OpRec(0, "is_connected", EmptyConfig, env,
                             Outcome("none", ic.v, FALSE, 0))
            /\ UNCHANGED <<engine, _active_connections, _async_active_connections,
                           pc, call, overlap, tornDown, prev>>

NextLife ==
    \/ L_connect
    \/ L_disconnect
    \/ L_async_connect
    \/ L_async_disconnect
    \/ L_execute_query
    \/ L_async_execute_query
    \/ L_is_connected

SpecLife == InitConn /\ [][NextLife]_vars

-----------------------------------------------------------------------------
(* SpecCatalog: what _get_table_details builds from the rows its three       *)
(* catalog queries return.  A row is the dict of the cursor; a NULL of the   *)
(* catalog is None in the row, which Python tests as it tests ''.            *)

MaxColumns == 3
MaxFkRows == 2
MaxParts == 2

Missing == ""
ColumnNames == {"a", "b", "c"}
Truthy(v) == v # Missing

Range(f) == {f[i] : i \in 1..Len(f)}
SeqsUpTo(S, n) == UNION {[1..k -> S] : k \in 0..n}

\* INFORMATION_SCHEMA.COLUMNS of one table, ORDER BY ORDINAL_POSITION
\* (mysql.py:917-929): COLUMN_NAME is never NULL and names a column once
ColumnRow(name, key) == [COLUMN_NAME |-> name, COLUMN_KEY |-> key]
ColumnRows ==
    { rows \in SeqsUpTo({ColumnRow(n, k) : n \in ColumnNames, k \in {"PRI", "UNI", ""}},
                        MaxColumns) :
        \A i, j \in 1..Len(rows) : rows[i].COLUMN_NAME = rows[j].COLUMN_NAME => i = j }

\* mysql.py:936-945
column_info(col) == [name |-> col.COLUMN_NAME, key |-> col.COLUMN_KEY]

\* mysql.py:948
is_primary_key_any_key(col) == col.COLUMN_KEY # ""

is_primary_key(col) == col.COLUMN_KEY = "PRI"

\* mysql.py:935-953: the loop over columns_result.data
RECURSIVE columns_loop(_, _)
columns_loop(data, table_details) ==
    IF data = << >> THEN table_details
    ELSE LET col == Head(data)
             pk_name == col.COLUMN_NAME
             keys == IF is_primary_key(col) /\ Truthy(pk_name)
                     THEN Append(table_details.primary_keys, pk_name)
                     ELSE table_details.primary_keys
         IN  columns_loop(Tail(data),
                          [table_details EXCEPT
                              !.primary_keys = keys,
                              !.columns = Append(@, column_info(col))])

\* INFORMATION_SCHEMA.KEY_COLUMN_USAGE rows (mysql.py:956-966), each of the
\* four values possibly NULL
FkRow(column, table, referenced, constraint) ==
    [ COLUMN_NAME |-> column, REFERENCED_TABLE_NAME |-> table,
      REFERENCED_COLUMN_NAME |-> referenced, CONSTRAINT_NAME |-> constraint ]
FkRows ==
    SeqsUpTo({ FkRow(c, t, r, n) : c \in {Missing, "a", "b"}, t \in {Missing, "t"},
                                   r \in {Missing, "id"}, n \in {Missing, "fk"} },
             MaxFkRows)

\* mysql.py:973-978
fk_info(fk) ==
    [ column |-> fk.COLUMN_NAME, referenced_table |-> fk.REFERENCED_TABLE_NAME,
      referenced_column |-> fk.REFERENCED_COLUMN_NAME,
      constraint_name |-> fk.CONSTRAINT_NAME ]

\* any(fk_info.values())
all_values_any(info) ==
    \/ Truthy(info.column)
    \/ Truthy(info.referenced_table)
    \/ Truthy(info.referenced_column)
    \/ Truthy(info.constraint_name)

\* mysql.py:980: all(fk_info.values())
all_values(info) ==
    /\ Truthy(info.column)
    /\ Truthy(info.referenced_table)
    /\ Truthy(info.referenced_column)
    /\ Truthy(info.constraint_name)

\* mysql.py:972-981: the loop over fk_result.data
RECURSIVE foreign_keys_loop(_, _)
foreign_keys_loop(data, table_details) ==
    IF data = << >> THEN table_details
    ELSE LET info == fk_info(Head(data))
         IN  foreign_keys_loop(Tail(data),
                               IF all_values(info)
                               THEN [table_details EXCEPT
                                        !.foreign_keys = Append(@, info)]
                               ELSE table_details)

\* INFORMATION_SCHEMA.STATISTICS rows of the indexes other than PRIMARY, ORDER
\* BY INDEX_NAME, SEQ_IN_INDEX (mysql.py:984-994).  A key part that is an
\* expression (a functional key part) has a NULL COLUMN_NAME.
IndexNames == <<"i1", "i2">>
IndexRow(name, column, non_unique) ==
    [ INDEX_NAME |-> name, COLUMN_NAME |-> column, NON_UNIQUE |-> non_unique,
      INDEX_TYPE |-> "BTREE" ]
KeyParts == SeqsUpTo(ColumnNames \cup {Missing}, MaxParts) \ {<< >>}
RowsOf(name, parts, non_unique) ==
    [i \in 1..Len(parts) |-> IndexRow(name, parts[i], non_unique)]

\* the indexes of a table: the key parts of each index that exists
Catalogs == [ {1, 2} -> [parts : KeyParts \cup {<< >>}, non_unique : {0, 1}] ]
IndexRows(cat) ==
    RowsOf(IndexNames[1], cat[1].parts, cat[1].non_unique)
        \o RowsOf(IndexNames[2], cat[2].parts, cat[2].non_unique)

\* mysql.py:1001-1015: the loop over index_result.data; current_index is None
\* before the first row
RECURSIVE indexes_loop(_, _, _)
indexes_loop(data, current_index, indexes) ==
    IF data = << >> THEN indexes
    ELSE LET idx == Head(data)
             idx_name == idx.INDEX_NAME
         IN  IF Truthy(idx_name) /\ idx_name # current_index
             THEN indexes_loop(Tail(data), idx_name,
                               Append(indexes,
                                      [ name |-> idx_name,
                                        unique |-> (idx.NON_UNIQUE = 0),
                                        type |-> idx.INDEX_TYPE,
                                        columns |-> <<idx.COLUMN_NAME>> ]))
             ELSE IF Truthy(current_index) /\ Truthy(idx.COLUMN_NAME)
             THEN indexes_loop(Tail(data), current_index,
                               [indexes EXCEPT
                                   ![Len(indexes)].columns = Append(@, idx.COLUMN_NAME)])
             ELSE indexes_loop(Tail(data), current_index, indexes)

\* mysql.py:907-913
EmptyDetails ==
    [ columns |-> << >>, primary_keys |-> << >>, foreign_keys |-> << >>,
      indexes |-> << >> ]

DetailsRec(op, rows, table_details) ==
    [op |-> op, rows |-> rows, table_details |-> table_details]

\* the rows a catalog query is about to return
CatalogAnswer(op, rows) == [op |-> op, rows |-> rows]
CatalogAnswers ==
    {CatalogAnswer("columns", rows) : rows \in ColumnRows}
        \cup {CatalogAnswer("foreign_keys", rows) : rows \in FkRows}
        \cup {CatalogAnswer("indexes", IndexRows(cat)) : cat \in Catalogs}

InitCatalog ==
    /\ conns = (Obj :> NewConnection("A"))
    /\ engine = InitEngine
    /\ last = DetailsRec("none", << >>, EmptyDetails)
    /\ prev = NoOp
    /\ _active_connections = << >>
    /\ _async_active_connections = << >>
    /\ pc = [p \in Callers |-> "idle"]
    /\ call \in CatalogAnswers
    /\ overlap = [p \in Callers |-> {}]
    /\ tornDown = {}

Built(table_details) ==
    /\ last.op = "none"
    /\ last' = DetailsRec(call.op, call.rows, table_details)
    /\ UNCHANGED <<conns, engine, _active_connections, _async_active_connections,
                   pc, call, overlap, tornDown, prev>>

D_columns ==
    /\ call.op = "columns"
    /\ Built(columns_loop(call.rows, EmptyDetails))

D_foreign_keys ==
    /\ call.op = "foreign_keys"
    /\ Built(foreign_keys_loop(call.rows, EmptyDetails))

D_indexes ==
    /\ call.op = "indexes"
    /\ Built([EmptyDetails EXCEPT
                 !.indexes = indexes_loop(call.rows, Missing, << >>)])

NextCatalog ==
    \/ D_columns
    \/ D_foreign_keys
    \/ D_indexes

SpecCatalog == InitCatalog /\ [][NextCatalog]_vars

-----------------------------------------------------------------------------
(* SpecClock: the wall clock read by one call of execute_query or            *)
(* async_execute_query.  Time passes while the call waits for the engine or  *)
(* for the pool; call holds the call's position and its readings.            *)

MaxTick == 3
Elapsed == 0..MaxTick

ClockOps == {"execute_query", "async_execute_query"}
ClockStmts == {St_select, St_insert}
Unset == -1

\* at: where the call is; now: time.time(); start_time (256, 400) and
\* execute_start (288): the readings kept; acquired_at, dispatched_at,
\* completed_at: when the session was in hand, when the statement was handed
\* to the cursor and when cursor.execute returned.
Timed(op, query, at, now, status) ==
    [ op |-> op, query |-> query, at |-> at, now |-> now,
      start_time |-> Unset, execute_start |-> Unset,
      acquired_at |-> Unset, dispatched_at |-> Unset,
      completed_at |-> Unset, execution_time |-> Unset,
      status |-> status ]

InitClock ==
    /\ conns = (Obj :> NewConnection("A"))
    /\ engine = InitEngine
    /\ last = NoOp
    /\ prev = NoOp
    /\ _active_connections = << >>
    /\ _async_active_connections = << >>
    /\ pc = [p \in Callers |-> "idle"]
    /\ call = Timed("none", St_select, "idle", 0, "none")
    /\ overlap = [p \in Callers |-> {}]
    /\ tornDown = {}

Clocked(c) ==
    /\ call' = c
    /\ UNCHANGED <<conns, engine, _active_connections, _async_active_connections,
                   pc, last, prev, overlap, tornDown>>

\* mysql.py:256-266: start_time read on entry; the blocking session is in
\* hand already, the cursor is created on it.  mysql.py:400-403 likewise, the
\* pool's session still to come.
K_enter ==
    \E op \in ClockOps, query \in ClockStmts :
        /\ call.at = "idle"
        /\ Clocked([call EXCEPT
               !.op = op, !.query = query, !.start_time = call.now,
               !.acquired_at = IF op = "execute_query" THEN call.now ELSE Unset,
               !.at = IF op = "execute_query" THEN "set_session" ELSE "acquire"])

\* mysql.py:270-285: SET SESSION max_execution_time, a round trip; 288 reads
\* execute_start next
K_set_session ==
    \E d \in Elapsed :
        /\ call.at = "set_session"
        /\ Clocked([call EXCEPT !.now = @ + d, !.execute_start = call.now + d,
                                !.at = "execute"])

\* mysql.py:406-407: the pool hands out a session, opening one or waiting for
\* one to be released
K_acquire ==
    \E d \in Elapsed :
        /\ call.at = "acquire"
        /\ Clocked([call EXCEPT !.now = @ + d, !.acquired_at = call.now + d,
                                !.at = "execute"])

\* mysql.py:291-297, 410: cursor.execute, answered or refused after d
K_execute ==
    \E d \in Elapsed, status \in {"ok", "rejected"} :
        /\ call.at = "execute"
        /\ Clocked([call EXCEPT !.dispatched_at = call.now, !.now = @ + d,
                                !.completed_at = call.now + d, !.status = status,
                                !.at = "measure"])

\* mysql.py:299: execution_time = time.time() - execute_start, and no
\* QueryResult when the statement was refused (365-372); mysql.py:426, 440,
\* 460: execution_time = time.time() - start_time on every path
K_measure ==
    /\ call.at = "measure"
    /\ Clocked([call EXCEPT
           !.execution_time =
               IF call.op = "execute_query"
                   THEN IF call.status = "ok" THEN call.now - call.execute_start
                                              ELSE Unset
                   ELSE call.now - call.start_time,
           !.at = "done"])

NextClock ==
    \/ K_enter
    \/ K_set_session
    \/ K_acquire
    \/ K_execute
    \/ K_measure

SpecClock == InitClock /\ [][NextClock]_vars

-----------------------------------------------------------------------------
(* SpecPool: async_execute_query calls that run concurrently on the pool of  *)
(* one connection.  The calls are alike, so the state keeps how many of them *)
(* are at each position, not which.                                          *)

MaxCalls == 11    \* async_execute_query calls in flight at once

\* mysql.py:203: maxsize=10
maxsize == 10

\* The positions of a call between its awaits:
\*   acquire       suspended in self._async_pool.acquire() (406), less than
\*                 timeout seconds after the call was made;
\*   acquire_late  still suspended there when timeout seconds have passed;
\*   execute       holding a pooled session, inside the async with block
\*                 (407-472).
Positions(acquire, acquire_late, execute) ==
    [acquire |-> acquire, acquire_late |-> acquire_late, execute |-> execute]

InFlight == pc.acquire + pc.acquire_late + pc.execute

\* What the engine does with the statement of a call that holds a session.
PoolStmtEnvs ==
    { StmtEnv("ok", 1, ""), StmtEnv("slow", 1, ServerError3024),
      StmtEnv("rejected", 0, "You have an error in your SQL syntax") }

\* The way a call left async_execute_query: it returned a result
\* ("return"), returned a failure-flagged result ("failure_result"), or
\* raised.
ExitPath(r) ==
    IF r.raised # "none" THEN "raise"
    ELSE IF r.result.success THEN "return"
    ELSE "failure_result"

PoolRec(op, env, r, path) == [op |-> op, env |-> env, r |-> r, path |-> path]

InitPool ==
    /\ conns = (Obj :> NewConnection("A"))
    /\ engine = InitEngine
    /\ pc = Positions(0, 0, 0)
    /\ call = << >>
    /\ overlap = << >>
    /\ _active_connections = << >>
    /\ _async_active_connections = << >>
    /\ tornDown = {}
    /\ last = NoOp
    /\ prev = NoOp

\* mysql.py:172-215
Pool_async_connect ==
    LET x == async_connect(conns[Obj], ValidConfig, engine, "accept")
    IN  /\ conns[Obj]._async_pool = None
        /\ conns' = [conns EXCEPT ![Obj] = x.c]
        /\ engine' = x.e
        /\ last' = OpRec(0, "async_connect", ValidConfig, "accept", x.r)
        /\ UNCHANGED <<_active_connections, _async_active_connections,
                       pc, call, overlap, tornDown, prev>>

\* mysql.py:400-406: a call is made; without a pool it raises at once,
\* otherwise it is suspended in acquire()
Pool_call ==
    /\ InFlight < MaxCalls
    /\ IF conns[Obj]._async_pool = None
           THEN LET r == async_execute_query(conns[Obj], engine, St_select, NoParams,
                                             1, CallerTimeout, StmtEnv("ok", 1, ""))
                IN  /\ last' = PoolRec("async_execute_query", StmtEnv("ok", 1, ""),
                                       r, ExitPath(r))
                    /\ pc' = pc
           ELSE /\ pc' = [pc EXCEPT !.acquire = @ + 1]
                /\ last' = last
    /\ UNCHANGED <<conns, engine, _active_connections, _async_active_connections,
                   call, overlap, tornDown, prev>>

\* The pool's acquire(): a session is handed out while fewer than maxsize are
\* in use; the call that gets it enters the block whether or not its timeout
\* has passed, since acquire() is not under wait_for (406, 410).
Pool_acquire ==
    \E late \in BOOLEAN :
        /\ engine.poolInUse < maxsize
        /\ IF late
               THEN /\ pc.acquire_late > 0
                    /\ pc' = [pc EXCEPT !.acquire_late = @ - 1, !.execute = @ + 1]
               ELSE /\ pc.acquire > 0
                    /\ pc' = [pc EXCEPT !.acquire = @ - 1, !.execute = @ + 1]
        /\ engine' = [engine EXCEPT !.poolInUse = @ + 1]
        /\ UNCHANGED <<conns, _active_connections, _async_active_connections,
                       call, overlap, tornDown, last, prev>>

\* timeout seconds pass for a call suspended in acquire(): no timer runs
\* there, and the call stays suspended.
Pool_elapse ==
    /\ pc.acquire > 0
    /\ pc' = [pc EXCEPT !.acquire = @ - 1, !.acquire_late = @ + 1]
    /\ UNCHANGED <<conns, engine, _active_connections, _async_active_connections,
                   call, overlap, tornDown, last, prev>>

\* The session stays acquired when the block is left by an exception.
aexit_leak_on_raise(inUse, path) == IF path = "raise" THEN inUse ELSE inUse - 1

\* mysql.py:406: async with self._async_pool.acquire() as conn releases the
\* session however the block is left
aexit(inUse, path) == inUse - 1

\* mysql.py:408-472: a call that holds a session runs its statement and leaves
\* the block
Pool_exit ==
    \E env \in PoolStmtEnvs :
        LET r == async_execute_query(conns[Obj], engine, St_select, NoParams, 1,
                                     CallerTimeout, env)
        IN  /\ pc.execute > 0
            /\ pc' = [pc EXCEPT !.execute = @ - 1]
            /\ engine' = [engine EXCEPT !.poolInUse = aexit(@, ExitPath(r))]
            /\ last' = PoolRec("async_execute_query", env, r, ExitPath(r))
            /\ UNCHANGED <<conns, _active_connections, _async_active_connections,
                           call, overlap, tornDown, prev>>

NextPool ==
    \/ Pool_async_connect
    \/ Pool_call
    \/ Pool_acquire
    \/ Pool_elapse
    \/ Pool_exit

SpecPool == InitPool /\ [][NextPool]_vars

-----------------------------------------------------------------------------
(* Spec: the connection registry, called by concurrent callers.             *)
(* The blocking connect/disconnect are split where the interpreter can      *)
(* switch threads around their network calls; async_connect and             *)
(* async_disconnect are split at their awaits.                              *)

\* connection_tools.py:85/275: config=None
OmittedConfig == [type |-> "omitted", keys |-> {}, password |-> "absent"]

\* connection_tools.py:22,110-119: the names that have a configuration file
\* under CONFIG_DIR, and what the file holds
ConfigFileNames == {"A"}

ConfigFile(name) == ValidConfig

\* What the engine does to the registry's calls: a handshake accepted or
\* rejected, a session lost; a close that goes through or raises.
RegistryConnectEnv == {"accept", "reject", "ping_fail"}

RegistryCloseEnv == {"ok", "pymysql.Error/open"}

RegistryQueryEnv == {"ok", "ping_fail"}

RegistryConfigInputs ==
    { OmittedConfig,
      ValidConfig,
      [type |-> "mysql", keys |-> AllKeys \ {"host"}, password |-> "literal"],
      [type |-> "postgresql", keys |-> AllKeys, password |-> "literal"] }

Init ==
    /\ conns = << >>
    /\ engine = InitEngine
    /\ last = NoOp
    /\ prev = NoOp
    /\ RegistryIdle

\* A caller enters a registry call: every caller that is inside a call now
\* overlaps it.
Enter(p, op, name) ==
    LET running == {q \in Callers \ {p} : pc[q] # "idle"}
    IN  overlap' = [q \in Callers |->
                      IF q = p THEN running
                      ELSE IF q \in running THEN overlap[q] \cup {p}
                      ELSE overlap[q] \ {p}]

\* The dictionary a registry call returns: success and the error it names.
Return(p, op, name, success, error) ==
    /\ pc' = [pc EXCEPT ![p] = "idle"]
    /\ call' = [call EXCEPT ![p] =
                  [op |-> op, name |-> name, config |-> EmptyConfig,
                   db |-> None, success |-> success, error |-> error]]

Goto(p, label, op, name, config, db) ==
    /\ pc' = [pc EXCEPT ![p] = label]
    /\ call' = [call EXCEPT ![p] =
                  [op |-> op, name |-> name, config |-> config,
                   db |-> db, success |-> FALSE, error |-> "none"]]

\* The configuration file taken to exist for every name.
LoadError_no_file_check(name, config) ==
    LET connection_config == IF config = OmittedConfig THEN ConfigFile(name)
                             ELSE config
    IN  IF connection_config.type \notin {"absent", "mysql"}
            THEN "unsupported_type"
        ELSE "none"

\* connection_tools.py:106-124 / 295-310: the configuration connect uses, and
\* the error it returns instead
LoadError(name, config) ==
    LET connection_config == IF config = OmittedConfig THEN ConfigFile(name)
                             ELSE config
    IN  IF config = OmittedConfig /\ name \notin ConfigFileNames
            THEN "config_not_found"
        ELSE IF connection_config.type \notin {"absent", "mysql"}
            THEN "unsupported_type"
        ELSE "none"

LoadConfig(name, config) ==
    IF config = OmittedConfig THEN ConfigFile(name) ELSE config

\* The membership test left out: every name counts as free.
AlreadyActive_never(name, d) == FALSE

\* connection_tools.py:99 / 288: connection_name in _active_connections
AlreadyActive(name, d) == name \in DOMAIN d

\* connection_tools.py:97-124: the check for an active entry, then the
\* configuration
Reg_connect_check(p) ==
    \E name \in Names, config \in RegistryConfigInputs :
        /\ pc[p] = "idle"
        /\ Enter(p, "connect", name)
        /\ IF AlreadyActive(name, _active_connections)
               THEN Return(p, "connect", name, FALSE, "already_active")
           ELSE IF LoadError(name, config) # "none"
               THEN Return(p, "connect", name, FALSE, LoadError(name, config))
           ELSE Goto(p, "connect_create", "connect", name,
                     LoadConfig(name, config), None)
        /\ UNCHANGED <<conns, engine, _active_connections,
                       _async_active_connections, tornDown, last, prev>>

\* connection_tools.py:128, 150-156: create_mysql_connection; an object whose
\* connect raised is dropped
Reg_connect_create(p) ==
    \E env \in RegistryConnectEnv :
        LET x == create_mysql_connection(call[p].name, call[p].config, engine, env)
        IN  /\ pc[p] = "connect_create"
            /\ Len(conns) < MaxInst
            /\ engine.sessCount < MaxSess
            /\ engine' = x.e
            /\ IF x.r.raised # "none"
                   THEN /\ Return(p, "connect", call[p].name, FALSE, x.r.raised)
                        /\ conns' = conns
                   ELSE /\ conns' = Append(conns, x.c)
                        /\ Goto(p, "connect_register", "connect", call[p].name,
                                call[p].config, Len(conns) + 1)
            /\ UNCHANGED <<_active_connections, _async_active_connections,
                           overlap, tornDown, last, prev>>

\* dict[name] = db
SetItem(d, name, db) ==
    [n \in DOMAIN d \cup {name} |-> IF n = name THEN db ELSE d[n]]

\* The whole dictionary emptied.
DelItem_clear(d, name) == << >>

\* del dict[name]
DelItem(d, name) == [n \in DOMAIN d \ {name} |-> d[n]]

\* connection_tools.py:129
Reg_connect_register(p) ==
    /\ pc[p] = "connect_register"
    /\ _active_connections' = SetItem(_active_connections, call[p].name, call[p].db)
    /\ Goto(p, "connect_test", "connect", call[p].name, call[p].config, call[p].db)
    /\ UNCHANGED <<conns, engine, _async_active_connections,
                   overlap, tornDown, last, prev>>

\* connection_tools.py:132-142
Reg_connect_test(p) ==
    \E env \in RegistryQueryEnv :
        LET x == test_connection(conns[call[p].db], engine, env)
        IN  /\ pc[p] = "connect_test"
            /\ conns' = [conns EXCEPT ![call[p].db] = x.c]
            /\ Return(p, "connect", call[p].name, x.r.success,
                      IF x.r.success THEN "none" ELSE "test_failed")
            /\ UNCHANGED <<engine, _active_connections, _async_active_connections,
                           overlap, tornDown, last, prev>>

\* connection_tools.py:169-179: the check, then db.disconnect()
Reg_disconnect_check(p) ==
    \E name \in Names, fail \in RegistryCloseEnv :
        /\ pc[p] = "idle"
        /\ Enter(p, "disconnect", name)
        /\ IF name \notin DOMAIN _active_connections
               THEN /\ Return(p, "disconnect", name, FALSE, "no_active_connection")
                    /\ UNCHANGED <<conns, engine, tornDown>>
               ELSE LET db == _active_connections[name]
                        x  == disconnect(conns[db], engine, fail)
                    IN  /\ conns' = [conns EXCEPT ![db] = x.c]
                        /\ engine' = x.e
                        /\ tornDown' = tornDown \cup {db}
                        /\ Goto(p, "disconnect_del", "disconnect", name,
                                EmptyConfig, db)
        /\ UNCHANGED <<_active_connections, _async_active_connections, last, prev>>

\* connection_tools.py:182-195: del, which raises KeyError when the entry is
\* gone
Reg_disconnect_del(p) ==
    /\ pc[p] = "disconnect_del"
    /\ IF call[p].name \in DOMAIN _active_connections
           THEN /\ _active_connections' = DelItem(_active_connections, call[p].name)
                /\ Return(p, "disconnect", call[p].name, TRUE, "none")
           ELSE /\ _active_connections' = _active_connections
                /\ Return(p, "disconnect", call[p].name, FALSE, "KeyError")
    /\ UNCHANGED <<conns, engine, _async_active_connections,
                   overlap, tornDown, last, prev>>

\* connection_tools.py:287-316: the check, the configuration and
\* create_mysql_connection run without an await; the task is suspended inside
\* db.async_connect, in aiomysql.create_pool
Reg_async_connect_check(p) ==
    \E name \in Names, config \in RegistryConfigInputs, env \in RegistryConnectEnv :
        LET x == create_mysql_connection(name, LoadConfig(name, config), engine, env)
        IN  /\ pc[p] = "idle"
            /\ Enter(p, "async_connect", name)
            /\ IF AlreadyActive(name, _async_active_connections)
                   THEN /\ Return(p, "async_connect", name, FALSE, "already_active")
                        /\ UNCHANGED <<conns, engine>>
               ELSE IF LoadError(name, config) # "none"
                   THEN /\ Return(p, "async_connect", name, FALSE,
                                  LoadError(name, config))
                        /\ UNCHANGED <<conns, engine>>
               ELSE /\ Len(conns) < MaxInst
                    /\ engine.sessCount < MaxSess
                    /\ engine' = x.e
                    /\ IF x.r.raised # "none"
                           THEN /\ Return(p, "async_connect", name, FALSE, x.r.raised)
                                /\ conns' = conns
                           ELSE /\ conns' = Append(conns, x.c)
                                /\ Goto(p, "async_connect_pool", "async_connect", name,
                                        LoadConfig(name, config), Len(conns) + 1)
            /\ UNCHANGED <<_active_connections, _async_active_connections,
                           tornDown, last, prev>>

\* connection_tools.py:316-317, 335-340: db.async_connect resumes with the pool
\* or raises; the object is registered; the task is suspended again inside
\* async_test_connection
Reg_async_connect_pool(p) ==
    \E env \in PoolEnv :
        LET db == call[p].db
            x  == async_connect(conns[db], call[p].config, engine, env)
        IN  /\ pc[p] = "async_connect_pool"
            /\ engine.poolCount < MaxPools
            /\ conns' = [conns EXCEPT ![db] = x.c]
            /\ engine' = x.e
            /\ IF x.r.raised # "none"
                   THEN /\ Return(p, "async_connect", call[p].name, FALSE, x.r.raised)
                        /\ UNCHANGED _async_active_connections
                   ELSE /\ _async_active_connections' =
                              SetItem(_async_active_connections, call[p].name, db)
                        /\ Goto(p, "async_connect_test", "async_connect",
                                call[p].name, call[p].config, db)
            /\ UNCHANGED <<_active_connections, overlap, tornDown, last, prev>>

\* connection_tools.py:319-328
Reg_async_connect_test(p) ==
    \E env \in RegistryQueryEnv :
        LET x == async_test_connection(conns[call[p].db], engine, env)
        IN  /\ pc[p] = "async_connect_test"
            /\ conns' = [conns EXCEPT ![call[p].db] = x.c]
            /\ Return(p, "async_connect", call[p].name, x.r.success,
                      IF x.r.success THEN "none" ELSE "test_failed")
            /\ UNCHANGED <<engine, _active_connections, _async_active_connections,
                           overlap, tornDown, last, prev>>

\* connection_tools.py:353-362: the check and the lookup; db.async_disconnect
\* closes the pool and is suspended in wait_closed (mysql.py:221-222)
Reg_async_disconnect_check(p) ==
    \E name \in Names :
        /\ pc[p] = "idle"
        /\ Enter(p, "async_disconnect", name)
        /\ IF name \notin DOMAIN _async_active_connections
               THEN /\ Return(p, "async_disconnect", name, FALSE,
                              "no_active_connection")
                    /\ UNCHANGED tornDown
               ELSE /\ tornDown' = tornDown \cup {_async_active_connections[name]}
                    /\ Goto(p, "async_disconnect_wait", "async_disconnect", name,
                            EmptyConfig, _async_active_connections[name])
        /\ UNCHANGED <<conns, engine, _active_connections,
                       _async_active_connections, last, prev>>

\* mysql.py:222-231, connection_tools.py:364-377: wait_closed returns or
\* raises, then del, which raises KeyError when the entry is gone
Reg_async_disconnect_wait(p) ==
    \E fail \in RegistryCloseEnv :
        LET db == call[p].db
            x  == async_disconnect(conns[db], engine, fail)
        IN  /\ pc[p] = "async_disconnect_wait"
            /\ conns' = [conns EXCEPT ![db] = x.c]
            /\ engine' = x.e
            /\ IF call[p].name \in DOMAIN _async_active_connections
                   THEN /\ _async_active_connections' =
                              DelItem(_async_active_connections, call[p].name)
                        /\ Return(p, "async_disconnect", call[p].name, TRUE, "none")
                   ELSE /\ UNCHANGED _async_active_connections
                        /\ Return(p, "async_disconnect", call[p].name, FALSE, "KeyError")
            /\ UNCHANGED <<_active_connections, overlap, tornDown, last, prev>>

Next ==
    \E p \in Callers :
        \/ Reg_connect_check(p)
        \/ Reg_connect_create(p)
        \/ Reg_connect_register(p)
        \/ Reg_connect_test(p)
        \/ Reg_disconnect_check(p)
        \/ Reg_disconnect_del(p)
        \/ Reg_async_connect_check(p)
        \/ Reg_async_connect_pool(p)
        \/ Reg_async_connect_test(p)
        \/ Reg_async_disconnect_check(p)
        \/ Reg_async_disconnect_wait(p)

Spec == Init /\ [][Next]_vars

-----------------------------------------------------------------------------
(* SpecOverlap: the blocking registry calls and execute_sql_query, issued by *)
(* concurrent callers.  A caller is inside execute_query from the moment the *)
(* statement is handed to the session until the session answers.             *)

\* What the engine does with the statement of a tool's query.
ToolStmtEnvs ==
    { StmtEnv("ok", 1, ""),
      StmtEnv("rejected", 0, "You have an error in your SQL syntax") }

\* query_tools.py:18-20, 154-162, mysql.py:259-261: the name is resolved, and
\* the statement is handed to the object's blocking session; nothing is held
\* or tested that another caller's statement on the session would wait for
Tool_query_begin(p) ==
    \E name \in Names :
        /\ pc[p] = "idle"
        /\ Enter(p, "execute_sql_query", name)
        /\ IF name \notin DOMAIN _active_connections
               THEN Return(p, "execute_sql_query", name, FALSE, "no_active_connection")
           ELSE IF conns[_active_connections[name]]._connection = None
               THEN Return(p, "execute_sql_query", name, FALSE,
                           "DatabaseConnectionError")
           ELSE Goto(p, "query_execute", "execute_sql_query", name, EmptyConfig,
                     _active_connections[name])
        /\ UNCHANGED <<conns, engine, _active_connections,
                       _async_active_connections, tornDown, last, prev>>

\* mysql.py:295-375, query_tools.py:172-186: the session answers; the result
\* or the error is turned into the dictionary returned
Tool_query_end(p) ==
    \E env \in ToolStmtEnvs :
        LET r == execute_query(conns[call[p].db], engine, St_select, NoParams, 1,
                               CallerTimeout, env)
        IN  /\ pc[p] = "query_execute"
            /\ Return(p, "execute_sql_query", call[p].name, r.raised = "none",
                      r.raised)
            /\ UNCHANGED <<conns, engine, _active_connections,
                           _async_active_connections, overlap, tornDown, last, prev>>

NextOverlap ==
    \E p \in Callers :
        \/ Reg_connect_check(p)
        \/ Reg_connect_create(p)
        \/ Reg_connect_register(p)
        \/ Reg_connect_test(p)
        \/ Reg_disconnect_check(p)
        \/ Reg_disconnect_del(p)
        \/ Tool_query_begin(p)
        \/ Tool_query_end(p)

SpecOverlap == Init /\ [][NextOverlap]_vars

-----------------------------------------------------------------------------
(* SpecTools: the registry's tools called one after the other, on two       *)
(* connection names.  "A" has a configuration file, "B" has none.            *)

ToolNames == {"A", "B"}

\* What a tool call returned: the dictionary's success and the error it
\* names, the exception that escaped the tool ("none": it returned), and the
\* connections a listing holds with the status of each.
ToolRec(op, name, config, success, error, raised, listing) ==
    [ op |-> op, name |-> name, config |-> config, success |-> success,
      error |-> error, raised |-> raised, listing |-> listing ]

NoListing == [n \in {} |-> "inactive"]

\* A tool returned a failure dictionary naming error.
Failed(op, name, config, error) ==
    ToolRec(op, name, config, FALSE, error, "none", NoListing)

\* A tool returned a dictionary with the success of the method it called.
Reported(op, name, config, success, error) ==
    ToolRec(op, name, config, success, error, "none", NoListing)

\* The lookup of a missing entry escaping the tool as KeyError.
NoActiveEntry_raises(op, name) ==
    ToolRec(op, name, EmptyConfig, FALSE, "none", "KeyError", NoListing)

\* connection_tools.py:170-175 / 354-359: the failure returned for a name
\* with no active entry
NoActiveEntry(op, name) == Failed(op, name, EmptyConfig, "no_active_connection")

\* The registry and everything it refers to stay as they are.
ToolFrame ==
    UNCHANGED <<conns, engine, _active_connections, _async_active_connections>>

ToolIdle == UNCHANGED <<pc, call, overlap, tornDown, prev>>

\* connection_tools.py:83-156
T_connect ==
    \E name \in ToolNames, config \in RegistryConfigInputs,
       env \in RegistryConnectEnv, tenv \in RegistryQueryEnv :
        LET cfg == LoadConfig(name, config)
            x   == create_mysql_connection(name, cfg, engine, env)
            t   == test_connection(x.c, x.e, tenv)
        IN  /\ ToolIdle
            /\ IF AlreadyActive(name, _active_connections)
                   THEN /\ last' = Failed("connect", name, config, "already_active")
                        /\ ToolFrame
               ELSE IF LoadError(name, config) # "none"
                   THEN /\ last' = Failed("connect", name, config,
                                          LoadError(name, config))
                        /\ ToolFrame
               ELSE /\ Len(conns) < MaxInst
                    /\ engine.sessCount < MaxSess
                    /\ engine' = x.e
                    /\ UNCHANGED _async_active_connections
                    /\ IF x.r.raised # "none"
                           THEN /\ last' = Failed("connect", name, config, x.r.raised)
                                /\ UNCHANGED <<conns, _active_connections>>
                           ELSE /\ conns' = Append(conns, t.c)
                                /\ _active_connections' =
                                      SetItem(_active_connections, name, Len(conns) + 1)
                                /\ last' = Reported("connect", name, config,
                                               t.r.success,
                                               IF t.r.success THEN "none"
                                               ELSE "test_failed")

\* connection_tools.py:159-195
T_disconnect ==
    \E name \in ToolNames, fail \in RegistryCloseEnv :
        /\ ToolIdle
        /\ IF name \notin DOMAIN _active_connections
               THEN /\ last' = NoActiveEntry("disconnect", name)
                    /\ ToolFrame
               ELSE LET db == _active_connections[name]
                        x  == disconnect(conns[db], engine, fail)
                    IN  /\ conns' = [conns EXCEPT ![db] = x.c]
                        /\ engine' = x.e
                        /\ _active_connections' = DelItem(_active_connections, name)
                        /\ UNCHANGED _async_active_connections
                        /\ last' = Reported("disconnect", name, EmptyConfig, TRUE,
                                            "none")

\* connection_tools.py:198-232
T_test_connection ==
    \E name \in ToolNames, env \in RegistryQueryEnv :
        /\ ToolIdle
        /\ IF name \notin DOMAIN _active_connections
               THEN /\ last' = NoActiveEntry("test_connection", name)
                    /\ ToolFrame
               ELSE LET db == _active_connections[name]
                        x  == test_connection(conns[db], engine, env)
                    IN  /\ conns' = [conns EXCEPT ![db] = x.c]
                        /\ last' = Reported("test_connection", name, EmptyConfig,
                                            x.r.success,
                                            IF x.r.success THEN "none"
                                            ELSE "test_failed")
                        /\ UNCHANGED <<engine, _active_connections,
                                       _async_active_connections>>

\* query_tools.py:136-189
T_execute_sql_query ==
    \E name \in ToolNames, env \in ToolStmtEnvs :
        /\ ToolIdle
        /\ ToolFrame
        /\ IF name \notin DOMAIN _active_connections
               THEN last' = NoActiveEntry("execute_sql_query", name)
               ELSE LET r == execute_query(conns[_active_connections[name]], engine,
                                           St_select, NoParams, 1, CallerTimeout, env)
                    IN  last' = Reported("execute_sql_query", name, EmptyConfig,
                                         r.raised = "none", r.raised)

\* connection_tools.py:273-340
T_async_connect ==
    \E name \in ToolNames, config \in RegistryConfigInputs,
       env \in RegistryConnectEnv, penv \in PoolEnv, tenv \in RegistryQueryEnv :
        LET cfg == LoadConfig(name, config)
            x   == create_mysql_connection(name, cfg, engine, env)
            y   == async_connect(x.c, cfg, x.e, penv)
            t   == async_test_connection(y.c, y.e, tenv)
        IN  /\ ToolIdle
            /\ IF AlreadyActive(name, _async_active_connections)
                   THEN /\ last' = Failed("async_connect", name, config,
                                          "already_active")
                        /\ ToolFrame
               ELSE IF LoadError(name, config) # "none"
                   THEN /\ last' = Failed("async_connect", name, config,
                                          LoadError(name, config))
                        /\ ToolFrame
               ELSE /\ Len(conns) < MaxInst
                    /\ engine.sessCount < MaxSess
                    /\ engine.poolCount < MaxPools
                    /\ UNCHANGED _active_connections
                    /\ IF x.r.raised # "none"
                           THEN /\ last' = Failed("async_connect", name, config,
                                                  x.r.raised)
                                /\ engine' = x.e
                                /\ UNCHANGED <<conns, _async_active_connections>>
                       ELSE IF y.r.raised # "none"
                           THEN /\ last' = Failed("async_connect", name, config,
                                                  y.r.raised)
                                /\ engine' = y.e
                                /\ UNCHANGED <<conns, _async_active_connections>>
                       ELSE /\ conns' = Append(conns, t.c)
                            /\ engine' = y.e
                            /\ _async_active_connections' =
                                  SetItem(_async_active_connections, name,
                                          Len(conns) + 1)
                            /\ last' = Reported("async_connect", name, config,
                                                t.r.success,
                                                IF t.r.success THEN "none"
                                                ELSE "test_failed")

\* connection_tools.py:343-377
T_async_disconnect ==
    \E name \in ToolNames, fail \in RegistryCloseEnv :
        /\ ToolIdle
        /\ IF name \notin DOMAIN _async_active_connections
               THEN /\ last' = NoActiveEntry("async_disconnect", name)
                    /\ ToolFrame
               ELSE LET db == _async_active_connections[name]
                        x  == async_disconnect(conns[db], engine, fail)
                    IN  /\ conns' = [conns EXCEPT ![db] = x.c]
                        /\ engine' = x.e
                        /\ _async_active_connections' =
                              DelItem(_async_active_connections, name)
                        /\ UNCHANGED _active_connections
                        /\ last' = Reported("async_disconnect", name, EmptyConfig,
                                            TRUE, "none")

\* connection_tools.py:42-62: one entry for each configuration file, marked
\* active when its name is a key of _active_connections
Listing ==
    [ n \in ConfigFileNames |->
        IF n \in DOMAIN _active_connections THEN "active" ELSE "inactive" ]

\* connection_tools.py:30-80
T_list_connections ==
    /\ ToolIdle
    /\ ToolFrame
    /\ last' = ToolRec("list_connections", "A", EmptyConfig, TRUE, "none", "none",
                       Listing)

NextTools ==
    \/ T_connect
    \/ T_disconnect
    \/ T_test_connection
    \/ T_execute_sql_query
    \/ T_async_connect
    \/ T_async_disconnect
    \/ T_list_connections

SpecTools == Init /\ [][NextTools]_vars

-----------------------------------------------------------------------------
(* Claims about the registry, checked under Spec *)

Finished(p, op) == pc[p] = "idle" /\ call[p].op = op

\* C1: of two connect calls (or two async_connect calls) for the same name
\* that ran concurrently, at most one reports success.
C1_ConcurrentConnectsNotBothSucceed ==
    \A p, q \in Callers :
        ( /\ p # q
          /\ q \in overlap[p]
          /\ \E op \in {"connect", "async_connect"} : Finished(p, op) /\ Finished(q, op)
          /\ call[p].name = call[q].name )
        => ~(call[p].success /\ call[q].success)

\* The step in which caller p enters the registry call op for a name that has
\* an entry in the dictionary d.
EntersOnActive(p, op, d) ==
    /\ pc[p] = "idle"
    /\ <<pc'[p], call'[p]>> # <<pc[p], call[p]>>
    /\ call'[p].op = op
    /\ call'[p].name \in DOMAIN d

\* C2: a connect (async_connect) issued while the name has an active entry
\* returns the 'already active' failure at once and changes nothing: the name
\* stays bound to the same object, the object's fields and the engine's
\* sessions and pools are as before.
C2_ConnectOnActiveNameFails ==
    [][ \A p \in Callers :
          ( \/ EntersOnActive(p, "connect", _active_connections)
            \/ EntersOnActive(p, "async_connect", _async_active_connections) )
          => ( /\ pc'[p] = "idle"
               /\ ~call'[p].success
               /\ call'[p].error = "already_active"
               /\ UNCHANGED <<_active_connections, _async_active_connections,
                              conns, engine>> ) ]_vars

Live(db) ==
    \/ conns[db]._connection \in engine.sessOpen
    \/ conns[db]._async_pool \in engine.poolOpen

\* C2 witness: a connect was refused as 'already active' while the name is
\* bound to a live, connected object.
C2_Witness ==
    \E p \in Callers :
        /\ Finished(p, "connect")
        /\ call[p].error = "already_active"
        /\ call[p].name \in DOMAIN _active_connections
        /\ Live(_active_connections[call[p].name])
        /\ conns[_active_connections[call[p].name]]._is_connected

BoundTo(name) ==
    {_active_connections[n] : n \in DOMAIN _active_connections \cap {name}}
        \cup {_async_active_connections[n] :
                n \in DOMAIN _async_active_connections \cap {name}}

\* C3: every connection name is bound to at most one live connection object,
\* counting the entries made by connect and by async_connect together.
C3_OneLiveObjectPerName ==
    \A name \in Names : Cardinality({db \in BoundTo(name) : Live(db)}) <= 1

\* The entry of name in dictionary d is deleted or overwritten by this step.
Removed(d, d2, name) ==
    /\ name \in DOMAIN d
    /\ (name \notin DOMAIN d2 \/ d2[name] # d[name])

\* C4: whenever an entry of the registry is deleted or overwritten, disconnect
\* (async_disconnect) has been called before on the object it held.
C4_NoRemovalWithoutDisconnect ==
    [][ \A name \in Names :
          /\ Removed(_active_connections, _active_connections', name)
                => _active_connections[name] \in tornDown
          /\ Removed(_async_active_connections, _async_active_connections', name)
                => _async_active_connections[name] \in tornDown ]_vars

-----------------------------------------------------------------------------
(* Claims about the connection methods, checked under SpecConn *)

Teardowns == {"disconnect", "async_disconnect"}

HoldsNoOpenResource(c) ==
    /\ c._connection \notin engine.sessOpen
    /\ c._async_pool \notin engine.poolOpen

\* C5: after a teardown (disconnect or async_disconnect) whose closes all went
\* through, the connection holds no open engine resource: its blocking session
\* is closed and its pool is closed.
C5_TornDownHoldsNoResource ==
    (last.op \in Teardowns /\ last.env = "ok") => HoldsNoOpenResource(conns[Obj])

\* C6: a disconnect (async_disconnect) made immediately after a disconnect
\* (async_disconnect), or on a connection no method was called on yet, changes
\* no field of the connection and issues no close on a session or pool.
C6_SecondTeardownIsNoOp ==
    [][ ( /\ last'.seq = last.seq + 1
          /\ last'.op \in Teardowns
          /\ (last.op = last'.op \/ last.seq = 0) )
        => (conns' = conns /\ last'.r.closes = 0) ]_vars

\* C7: disconnect and async_disconnect never raise to the caller, whatever the
\* close of the session or pool raised, and the connection's _is_connected flag
\* is false afterwards.
C7_TeardownNeverRaises ==
    last.op \in Teardowns =>
        (last.r.raised = "none" /\ ~conns[Obj]._is_connected)

\* C7 witness: a disconnect has issued a close that raised a non-driver error.
C7_Witness ==
    /\ last.op = "disconnect"
    /\ last.r.closes = 1
    /\ CloseRaises(last.env) = "OSError"

\* C8: connect and async_connect given a config lacking a required key fail
\* with DatabaseConfigError, and attempt no network connection.
C8_MissingKeyIsConfigError ==
    (last.op \in {"connect", "async_connect"} /\ MissingKey(last.config)) =>
        (last.r.raised = "DatabaseConfigError" /\ ~last.r.net)

\* C9: connect and async_connect given a password env:VAR with VAR unset fail
\* with DatabaseConfigError, and attempt no connection to the engine.
C9_UnsetEnvIsConfigError ==
    ( /\ last.op \in {"connect", "async_connect"}
      /\ ~MissingKey(last.config)
      /\ last.config.password = "env_unset" ) =>
        (last.r.raised = "DatabaseConfigError" /\ ~last.r.net)

\* C10: when connect returned and the engine answers, the test_connection that
\* follows immediately reports success; likewise async_connect followed
\* immediately by async_test_connection.
C10_ConnectThenTestSucceeds ==
    /\ ( /\ prev.op = "connect" /\ prev.r.raised = "none"
         /\ last.op = "test_connection" /\ last.env = "ok" ) => last.r.success
    /\ ( /\ prev.op = "async_connect" /\ prev.r.raised = "none"
         /\ last.op = "async_test_connection" /\ last.env = "ok" ) => last.r.success

-----------------------------------------------------------------------------
(* Claims about statement execution, checked under SpecQuery *)

QueryOps == {"execute_query", "async_execute_query"}

\* The call returned a QueryResult with success=True.
Succeeded(rec) == rec.r.raised = "none" /\ rec.r.result.success

\* C11: a successful execute_query or async_execute_query of a read statement
\* returns at most max_rows rows in data, whatever max_rows is.
C11_DataWithinMaxRows ==
    (last.op \in QueryOps /\ Succeeded(last) /\ IsRead(last.query))
        => Len(last.r.result.data) <= last.max_rows

\* The returned result carries a truncation flag, and it is set.
TruncationFlagSet(result) ==
    "warning" \in DOMAIN result /\ result.warning # NoWarning

\* C12: a read that returned exactly max_rows rows hands back a result on
\* which the truncation flag is set.
C12_TruncationFlagOnResult ==
    ( /\ last.op \in QueryOps /\ Succeeded(last) /\ IsRead(last.query)
      /\ Len(last.r.result.data) = last.max_rows )
        => TruncationFlagSet(last.r.result)

\* C13: a successful execution of a statement classified as a write returns,
\* in either model, the one row {affected_rows: N}, the columns [affected_rows]
\* and row_count 1, N being the count the engine reported for the statement.
C13_WriteReportsAffectedRows ==
    (last.op \in QueryOps /\ Succeeded(last) /\ ~IsRead(last.query))
        => ( /\ last.r.result.data = <<[affected_rows |-> last.env.n]>>
             /\ last.r.result.columns = <<"affected_rows">>
             /\ last.r.result.row_count = 1 )

\* C13 witness: a write that the engine reported two rows for has returned, in
\* the non-blocking model.
C13_Witness ==
    /\ last.op = "async_execute_query"
    /\ Succeeded(last)
    /\ last.query = St_insert
    /\ last.env.n = 2

WordChars ==
    {Upper[k] : k \in 1..Len(Upper)} \cup {Lower[k] : k \in 1..Len(Lower)}
        \cup {"0", "1", "2", "3", "4", "5", "6", "7", "8", "9", "_"}

\* The first token of a statement: the word it begins with after the leading
\* whitespace, in lower case.
FirstToken(query) ==
    LET t    == strip(query)
        stop == {i \in 1..Len(t) : t[i] \notin WordChars}
        end  == IF stop = {} THEN Len(t)
                ELSE (CHOOSE i \in stop : \A j \in stop : i <= j) - 1
    IN  lower(SubSeq(t, 1, end))

ReadKeywords == {read_keywords[k] : k \in 1..Len(read_keywords)}

\* The result is the one built for a write.
WriteShaped(result) == result.columns = <<"affected_rows">>

NothingInterpolated(sent) ==
    \A i \in 1..Len(sent) : sent[i].interpolated = {}

\* C15: no operation hands the engine a statement whose text was built by
\* formatting a caller-supplied value (parameters, table_name, timeout) into
\* it; such values are passed as bound parameters only.  Checked under
\* SpecSchema.
C15_NoCallerValueInSqlText ==
    /\ last.op \in SchemaOps => NothingInterpolated(last.sent)
    /\ last.op \in QueryOps => NothingInterpolated(last.r.sent)

\* C16: an async_execute_query whose statement was handed to the engine and
\* did not complete within the timeout raises DatabaseTimeoutError and returns
\* no QueryResult.
C16_AsyncTimeoutRaisesTimeoutError ==
    ( /\ last.op = "async_execute_query"
      /\ last.env.status = "slow"
      /\ last.r.sent # << >> )
        => (last.r.raised = "DatabaseTimeoutError" /\ last.r.result = NoResult)

\* C16 witness: a statement has run past the timeout on a connected pool.
C16_Witness ==
    /\ last.op = "async_execute_query"
    /\ last.env.status = "slow"
    /\ conns[Obj]._async_pool \in engine.poolOpen
    /\ last.r.raised # "none"

\* C17: when a statement run by a public operation (execute_query, get_schema,
\* get_table_schema, get_database_info or an async counterpart) ran past the
\* timeout and the operation raised for it, the error raised to the caller is
\* DatabaseTimeoutError.  Checked under SpecSchema.
C17_TimeoutStaysTimeoutError ==
    /\ (last.op \in SchemaOps /\ last.done /\ last.timedOut)
          => last.raised = "DatabaseTimeoutError"
    /\ ( /\ last.op \in QueryOps
         /\ last.env.status = "slow"
         /\ last.r.sent # << >>
         /\ last.r.raised # "none" )
          => last.r.raised = "DatabaseTimeoutError"

\* The exception the engine made the blocking cursor.execute raise in the call
\* recorded in rec.
ThrownIn(rec) ==
    Thrown(conns[Obj], engine, rec.query, rec.env,
           SupportsMaxExecutionTime(conns[Obj]._mysql_version))

\* C18: the blocking execute_query translates every failure by kind: the
\* engine's error for a statement that ran past the timeout raises
\* DatabaseTimeoutError, any other engine error raises DatabaseQueryError with
\* the engine's message, any other failure raises DatabaseQueryError with the
\* wrapper message; nothing else is raised.
C18_FailuresTranslatedByKind ==
    (last.op = "execute_query" /\ last.r.sent # << >>) =>
        /\ (ThrownIn(last).kind = "pymysql.OperationalError"
                /\ last.env.status = "slow")
              => last.r.raised = "DatabaseTimeoutError"
        /\ last.env.status \in {"rejected", "lost"}
              => (last.r.raised = "DatabaseQueryError" /\ last.r.msg = last.env.msg)
        /\ last.env.status = "unexpected"
              => ( /\ last.r.raised = "DatabaseQueryError"
                   /\ last.r.prefix = "Unexpected error: " )
        /\ last.r.raised \in {"none", "DatabaseTimeoutError", "DatabaseQueryError"}

RanInAutocommit(rec) ==
    IF rec.op = "execute_query"
        THEN conns[Obj]._connection \in engine.sessAuto
        ELSE conns[Obj]._async_pool \in engine.poolAuto

\* C20: in both models a statement that executed successfully is followed by
\* a commit before the result is returned exactly when the session it ran on
\* is not in auto-commit mode.
C20_CommitIffNotAutocommit ==
    (last.op \in QueryOps /\ Succeeded(last))
        => (last.r.commits > 0 <=> ~RanInAutocommit(last))

-----------------------------------------------------------------------------
(* Claims about schema introspection, checked under SpecSchema *)

\* The session the existence check of the operation runs on is open.
LiveFor(op) ==
    IF op = "get_table_schema"
        THEN conns[Obj]._connection \in engine.sessOpen
        ELSE conns[Obj]._async_pool \in engine.poolOpen

\* The engine answered the first statement of the operation with no row.
NotFound(rec) == rec.answers # << >> /\ rec.answers[1] = StmtEnv("ok", 0, "")

\* C21: get_table_schema and async_get_table_schema on a live connection,
\* given a name the catalog has no table for, return None without raising and
\* run no statement but the existence check; the existence check is the first
\* statement either operation runs.
C21_MissingTableIsAbsent ==
    last.op \in TableSchemaOps =>
        /\ last.issued # << >> => last.issued[1].role = "exists"
        /\ (LiveFor(last.op) /\ NotFound(last)) =>
              ( /\ last.done
                /\ last.raised = "none"
                /\ last.value = "None"
                /\ Len(last.issued) = 1 )

\* C21 witness: get_table_schema on a live session has returned None for a
\* name the catalog has no table for.
C21_Witness ==
    /\ last.op = "get_table_schema"
    /\ LiveFor(last.op)
    /\ NotFound(last)
    /\ last.done
    /\ last.value = "None"

AsyncSchemaOps ==
    {"async_get_schema", "async_get_table_schema", "async_get_database_info"}

\* C22: the two execution models share no session: every statement of a
\* non-blocking operation runs on the pool, and every statement of a blocking
\* operation runs on the blocking session.
C22_ModelsShareNoSession ==
    last.op \in SchemaOps =>
        \A i \in 1..Len(last.issued) :
            last.issued[i].model =
                (IF last.op \in AsyncSchemaOps THEN "async" ELSE "blocking")

-----------------------------------------------------------------------------
(* Claims about the two execution models, checked under SpecConn *)

\* What the connection reports about its blocking session: the is_connected
\* property, the engine answering.
ReportedBlocking(c, e) == is_connected(c, e, "ok").v

\* What the connection reports about its pool: async_test_connection, the
\* engine answering.
ReportedAsync(c, e) == async_test_connection(c, e, "ok").r.success

BlockingLifecycle == {"connect", "disconnect"}

AsyncLifecycle == {"async_connect", "async_disconnect"}

\* C23: the connectivity of the blocking session and of the pool are tracked
\* independently: connect and disconnect leave what the connection reports
\* about its pool unchanged, and leave _is_connected set while the pool stays
\* open; async_connect and async_disconnect leave what it reports about the
\* blocking session unchanged, and leave _is_connected set while the blocking
\* session stays open.
C23_SessionsTrackedIndependently ==
    [][ last'.seq = last.seq + 1 =>
          /\ last'.op \in BlockingLifecycle =>
                /\ ReportedAsync(conns'[Obj], engine')
                      = ReportedAsync(conns[Obj], engine)
                /\ ( /\ conns[Obj]._is_connected
                     /\ conns[Obj]._async_pool \in engine.poolOpen )
                      => conns'[Obj]._is_connected
          /\ last'.op \in AsyncLifecycle =>
                /\ ReportedBlocking(conns'[Obj], engine')
                      = ReportedBlocking(conns[Obj], engine)
                /\ ( /\ conns[Obj]._is_connected
                     /\ conns[Obj]._connection \in engine.sessOpen )
                      => conns'[Obj]._is_connected ]_vars

-----------------------------------------------------------------------------
(* Claims about the pool, checked under SpecPool *)

\* C24: every async_execute_query call that has acquired a pooled session
\* and not yet returned or raised holds exactly one, a call that left (with a
\* result, a failure-flagged result, or the timeout error) holds none; the
\* sessions in use never exceed the pool's maxsize, and none is in use when
\* no call is in flight.
C24_OneSessionPerCallReleasedOnExit ==
    /\ engine.poolInUse = pc.execute
    /\ engine.poolInUse <= maxsize
    /\ InFlight = 0 => engine.poolInUse = 0

\* C24 witness: a call has left by the timeout error while the other calls
\* hold every session of the pool but the one it released and a further call
\* waits.
C24_Witness ==
    /\ last.op = "async_execute_query"
    /\ last.r.raised = "DatabaseTimeoutError"
    /\ engine.poolInUse = maxsize - 1
    /\ pc.acquire > 0

\* C25: no async_execute_query call is still waiting for a pooled session
\* once its timeout has passed: the timeout bounds the wait for the session
\* together with the execution.
C25_TimeoutBoundsAcquisition ==
    pc.acquire_late = 0

-----------------------------------------------------------------------------
(* Claims about overlapping tool invocations, checked under SpecOverlap *)

\* The callers whose statement is in flight on the blocking session of
\* object db.
InFlightOn(db) == {p \in Callers : pc[p] = "query_execute" /\ call[p].db = db}

\* C26: on the blocking session of a connection at most one statement is in
\* flight at any time, also when tool invocations that resolve the same name
\* overlap.
C26_OneStatementInFlight ==
    \A db \in DOMAIN conns : Cardinality(InFlightOn(db)) <= 1

-----------------------------------------------------------------------------
(* Claims about the registry's tools, checked under SpecTools *)

\* The dictionary a tool looks its name up in.
RegistryOf(op) ==
    IF op \in {"async_connect", "async_disconnect"}
        THEN _async_active_connections
        ELSE _active_connections

\* C27: disconnect(name) and async_disconnect(name) for a name that has no
\* active entry return a failure report, raise nothing, and leave both
\* dictionaries, every connection object and the engine's sessions and pools
\* unchanged.
C27_DisconnectOfInactiveNameFailsSoftly ==
    [][ ( /\ last'.op \in {"disconnect", "async_disconnect"}
          /\ last'.name \notin DOMAIN RegistryOf(last'.op) )
        => ( /\ ~last'.success
             /\ last'.raised = "none"
             /\ last'.error = "no_active_connection"
             /\ ToolFrame ) ]_vars

\* C27 witness: disconnect was refused for a name with no entry while another
\* name is bound to a live connection.
C27_Witness ==
    /\ last.op = "disconnect"
    /\ last.name = "B"
    /\ last.error = "no_active_connection"
    /\ "A" \in DOMAIN _active_connections
    /\ Live(_active_connections["A"])

\* C28: connect(name) and async_connect(name) without a config, for a name
\* that has no configuration file, return an error result, raise nothing,
\* create no connection and leave the registry unchanged; the error is the
\* missing file unless the name was already active.
C28_MissingConfigSourceIsSoftError ==
    [][ ( /\ last'.op \in {"connect", "async_connect"}
          /\ last'.config = OmittedConfig
          /\ last'.name \notin ConfigFileNames )
        => ( /\ ~last'.success
             /\ last'.raised = "none"
             /\ last'.error =
                    (IF last'.name \in DOMAIN RegistryOf(last'.op)
                         THEN "already_active" ELSE "config_not_found")
             /\ ToolFrame ) ]_vars

\* C28 witness: connect without a config was refused for the name that has no
\* configuration file, while another name is bound to a live connection.
C28_Witness ==
    /\ last.op = "connect"
    /\ last.name = "B"
    /\ last.config = OmittedConfig
    /\ last.error = "config_not_found"
    /\ "A" \in DOMAIN _active_connections
    /\ Live(_active_connections["A"])

\* C29: the listing holds every active name, marked active, whether or not
\* the name has a configuration file, and every configured name that is not
\* active, marked inactive.
C29_ListingComplete ==
    last.op = "list_connections" =>
        /\ \A n \in DOMAIN _active_connections :
              n \in DOMAIN last.listing /\ last.listing[n] = "active"
        /\ \A n \in ConfigFileNames \ DOMAIN _active_connections :
              n \in DOMAIN last.listing /\ last.listing[n] = "inactive"

\* The entry of name b in dictionary d, the object it holds and the state of
\* the object's session and pool are the same after the step.
EntryUnchanged(d, d2, b) ==
    /\ (b \in DOMAIN d) = (b \in DOMAIN d2)
    /\ b \in DOMAIN d =>
          /\ d2[b] = d[b]
          /\ conns'[d[b]] = conns[d[b]]
          /\ (conns[d[b]]._connection \in engine.sessOpen)
                = (conns[d[b]]._connection \in engine'.sessOpen)
          /\ (conns[d[b]]._async_pool \in engine.poolOpen)
                = (conns[d[b]]._async_pool \in engine'.poolOpen)
          /\ ReportedBlocking(conns'[d[b]], engine')
                = ReportedBlocking(conns[d[b]], engine)

NamedTools ==
    { "connect", "disconnect", "test_connection", "execute_sql_query",
      "async_connect", "async_disconnect" }

\* C30: a connect, disconnect, test or query on one name leaves the registry
\* entry, the connection object, the session state and the connected status
\* of every other name unchanged.
C30_NamesAreIndependent ==
    [][ last'.op \in NamedTools =>
          \A b \in ToolNames \ {last'.name} :
              /\ EntryUnchanged(_active_connections, _active_connections', b)
              /\ EntryUnchanged(_async_active_connections,
                                _async_active_connections', b) ]_vars

\* C30 witness: the connection named A was disconnected while B is bound to a
\* live connection.
C30_Witness ==
    /\ last.op = "disconnect"
    /\ last.name = "A"
    /\ last.success
    /\ "B" \in DOMAIN _active_connections
    /\ Live(_active_connections["B"])

-----------------------------------------------------------------------------
(* Claims about the connection's lifecycle and statements, checked under     *)
(* SpecLife                                                                  *)

\* base.py:411-425: the errors of the connection interface
ErrorTaxonomy ==
    { "DatabaseConfigError", "DatabaseConnectionError", "DatabaseQueryError",
      "DatabaseTimeoutError" }

LifeOps ==
    { "connect", "disconnect", "async_connect", "async_disconnect",
      "execute_query", "async_execute_query" }

\* C31: every error that escapes connect, disconnect, execute_query or a
\* non-blocking counterpart is a DatabaseConfigError, DatabaseConnectionError,
\* DatabaseQueryError or DatabaseTimeoutError; no driver or internal error is
\* raised as it is.
C31_ErrorsStayInTaxonomy ==
    last.op \in LifeOps => last.r.raised \in ErrorTaxonomy \cup {"none"}

-----------------------------------------------------------------------------
(* Claims about the table description, checked under SpecCatalog             *)

Names_of(columns) == {columns[i].name : i \in 1..Len(columns)}
Position(columns, name) == CHOOSE i \in 1..Len(columns) : columns[i].name = name
Flagged(rows) == {rows[i].COLUMN_NAME : i \in {j \in 1..Len(rows) : rows[j].COLUMN_KEY = "PRI"}}

\* C32: primary_keys of a table description are exactly the names of the
\* columns whose key flag is PRI, each once and in the order of the columns;
\* every name in primary_keys is the name of a column of the description.
C32_PrimaryKeysAreFlaggedColumns ==
    last.op = "columns" =>
        LET d == last.table_details
            pk == d.primary_keys
        IN  /\ Range(pk) = Flagged(last.rows)
            /\ Range(pk) \subseteq Names_of(d.columns)
            /\ \A i, j \in 1..Len(pk) :
                  i < j => Position(d.columns, pk[i]) < Position(d.columns, pk[j])
            /\ Len(d.columns) = Len(last.rows)

C32_Witness ==
    /\ last.op = "columns"
    /\ Len(last.table_details.primary_keys) = 2
    /\ Len(last.table_details.columns) = 3
    /\ last.rows[1].COLUMN_KEY = "UNI"

Complete(fk) ==
    /\ fk.COLUMN_NAME # Missing
    /\ fk.REFERENCED_TABLE_NAME # Missing
    /\ fk.REFERENCED_COLUMN_NAME # Missing
    /\ fk.CONSTRAINT_NAME # Missing

\* C33: the foreign-key entries of a table description are the complete
\* catalog rows, one entry per complete row and in their order, and no entry
\* lacks a column, a referenced table, a referenced column or a constraint name.
C33_ForeignKeysAreCompleteRows ==
    last.op = "foreign_keys" =>
        LET out == last.table_details.foreign_keys
        IN  /\ out = [i \in 1..Len(SelectSeq(last.rows, Complete)) |->
                         fk_info(SelectSeq(last.rows, Complete)[i])]
            /\ \A i \in 1..Len(out) :
                  Missing \notin { out[i].column, out[i].referenced_table,
                                   out[i].referenced_column, out[i].constraint_name }

C33_Witness ==
    /\ last.op = "foreign_keys"
    /\ Len(last.rows) = 2
    /\ Len(last.table_details.foreign_keys) = 1
    /\ ~Complete(last.rows[1])

\* the named key parts of an index, in the sequence of the catalog
ColumnsOf(rows, name) ==
    LET named(r) == r.INDEX_NAME = name /\ r.COLUMN_NAME # Missing
        sel == SelectSeq(rows, named)
    IN  [i \in 1..Len(sel) |-> sel[i].COLUMN_NAME]

\* C34: the index entries of a table description are one per index name of
\* the catalog rows; the columns of an entry are the columns of that index in
\* the sequence of the catalog, and none of them is an empty placeholder.
C34_OneEntryPerIndex ==
    last.op = "indexes" =>
        LET out == last.table_details.indexes
        IN  /\ {out[i].name : i \in 1..Len(out)}
                  = {last.rows[i].INDEX_NAME : i \in 1..Len(last.rows)}
            /\ \A i, j \in 1..Len(out) : out[i].name = out[j].name => i = j
            /\ \A i \in 1..Len(out) :
                  /\ out[i].columns = ColumnsOf(last.rows, out[i].name)
                  /\ Missing \notin Range(out[i].columns)
                  /\ out[i].name # "PRIMARY"

-----------------------------------------------------------------------------
(* Claims about the two variants of get_table_schema, checked under          *)
(* SpecSchema                                                                *)

RolesIssued(rec) == {rec.issued[i].role : i \in 1..Len(rec.issued)}

\* C35: get_table_schema and async_get_table_schema are one operation: a
\* TableSchema returned by either is built from the same statements, the
\* COUNT(*) that resolves row_count and the SHOW CREATE TABLE that gives
\* create_statement among them.
C35_VariantsBuildTheSameSchema ==
    (last.op \in TableSchemaOps /\ last.done /\ last.value = "TableSchema") =>
        RolesIssued(last) =
            {"exists", "columns", "foreign_keys", "indexes", "count", "create"}

-----------------------------------------------------------------------------
(* Claims about the reported duration, checked under SpecClock               *)

\* C36: the execution_time a call of execute_query or async_execute_query
\* reports is the time from the dispatch of the statement to its completion:
\* the interval starts when the session is in hand and never contains the
\* time spent acquiring it.
C36_ExecutionTimeExcludesAcquisition ==
    (call.at = "done" /\ call.execution_time # Unset) =>
        /\ call.execution_time = call.completed_at - call.dispatched_at
        /\ call.completed_at - call.execution_time >= call.acquired_at

-----------------------------------------------------------------------------
(* Claims about failed connects, checked under SpecTools                     *)

ConnectTools == {"connect", "async_connect"}

\* C37: a connect or async_connect of the registry that reports success=false
\* leaves both registries as they were before the call.
C37_FailedConnectLeavesRegistry ==
    [][ (last'.op \in ConnectTools /\ ~last'.success) =>
            /\ _active_connections' = _active_connections
            /\ _async_active_connections' = _async_active_connections ]_vars

\* the connection objects a registry holds
Registered ==
    {_active_connections[n] : n \in DOMAIN _active_connections}
        \cup {_async_active_connections[n] : n \in DOMAIN _async_active_connections}

\* the open sessions and pools of the engine that no registered object holds
UnreachableSessions == engine.sessOpen \ {conns[d]._connection : d \in Registered}

UnreachablePools == engine.poolOpen \ {conns[d]._async_pool : d \in Registered}

\* C38: a connect or async_connect of the registry that reports success=false
\* leaves no session and no pool open that no registered connection holds.
C38_FailedConnectLeaksNothing ==
    [][ (last'.op \in ConnectTools /\ ~last'.success) =>
            /\ UnreachableSessions' \subseteq UnreachableSessions
            /\ UnreachablePools' \subseteq UnreachablePools ]_vars

-----------------------------------------------------------------------------
(* Claims about a disconnected connection, checked under SpecLife            *)

\* C39: once disconnect has returned, and until connect is called again, the
\* connection holds no session reference: is_connected reports false, and
\* execute_query raises DatabaseConnectionError and sends nothing.
C39_DisconnectedHoldsNoSession ==
    prev.op = "disconnect" =>
        /\ conns[Obj]._connection = None
        /\ last.op = "is_connected" => ~last.r.success
        /\ last.op = "execute_query" =>
              /\ last.r.raised = "DatabaseConnectionError"
              /\ last.r.sent = << >>

====
